---- MODULE Spec2Model ----
(***************************************************************************)
(* Model of the command monitor (usage tracker / escalation engine), the   *)
(* alias resolver it calls and the shell hook that drives it.              *)
(*                                                                         *)
(* Strings are sequences of atoms.  An atom is either the blank " " or a  *)
(* word: a maximal run of non-blank characters.  Python's str.split(),     *)
(* ' '.join(), +, ==, startswith(x + ' ') and slicing at a matched prefix  *)
(* act on such sequences exactly as they act on the character strings,     *)
(* because a prefix that is followed by a blank ends on an atom boundary.  *)
(***************************************************************************)
EXTENDS Integers, Sequences, FiniteSets, TLC

VARIABLES
    aliases,    \* Alias Store (aliases.yaml): sequence of entries, dict order
    stats,      \* Stats Store (stats.yaml): alias name -> usage entry
    config,     \* monitoring section of config.yaml
    now,        \* logical clock read by datetime.now()
    call,       \* the operation that ran last and what it resolved
    result,     \* what the last record_command returned
    exit_code,  \* exit status of the last hook process
    stdout,     \* messages printed by the last hook process
    run,        \* history: the uninterrupted run of one repeated command
    blocked,    \* history: aliases blocked under the current thresholds
    error,      \* class of the exception that left the last record_command
    resolved,   \* what the last find_alias_for_command of the resolver returned
    files,      \* the shell files that exist: file name -> sequence of lines
    parsed,     \* what the last parse or collection of shell files returned
    procs,      \* hook processes inside record_command: what each has read
    completed,  \* history: alias name -> tracked record calls that returned
    watch,      \* modification times of the files and of .file_mtimes; last check
    expected    \* history: the names added to ~/.slothrc and their commands

vars == <<aliases, stats, config, now, call, result, exit_code, stdout, run, blocked,
          error, resolved, files, parsed, procs, completed, watch, expected>>

----------------------------------------------------------------------------
(* Bounds *)

MaxClock == 3
MaxThreshold == 3
MaxNotice == 2

(* lines of the shell file that is parsed *)
MaxLines == 2

(* lines of their own that the user has in the configuration files *)
MaxOwnLines == 2

(* calls of add_alias and remove_alias *)
MaxRcCalls == 3

(* modifications of monitored files *)
MaxEdits == 3

(* commands typed in one shell session while another session is open *)
MaxRaceCalls == 2

(* lines of all the shell files of the home directory together *)
MaxHomeLines == 2

(* entries of the Alias Store the add command may build *)
MaxAliases == 3

(* tracked calls followed while the files may fail *)
MaxFaultCalls == 2

(* max_depth default of _expand_aliases_in_command *)
MaxDepth == 10

----------------------------------------------------------------------------
(* Strings *)

SP == " "

TAB == "\t"

(* c.isspace() for the characters of the model *)
IsSpace(a) == a \in {SP, TAB}

(* str.split(): the words of s *)
split(s) == SelectSeq(s, LAMBDA a : ~IsSpace(a))

(* ' '.join(parts) *)
RECURSIVE join(_)
join(parts) ==
    IF parts = << >> THEN << >>
    ELSE IF Len(parts) = 1 THEN <<parts[1]>>
    ELSE <<parts[1], SP>> \o join(Tail(parts))

(* s.startswith(p) *)
startswith(s, p) == Len(p) <= Len(s) /\ SubSeq(s, 1, Len(p)) = p

(* s[n:] *)
slice_from(s, n) == SubSeq(s, n + 1, Len(s))

(* s.strip() *)
RECURSIVE lstrip(_)
lstrip(s) == IF s # << >> /\ IsSpace(Head(s)) THEN lstrip(Tail(s)) ELSE s

RECURSIVE rstrip(_)
rstrip(s) ==
    IF s # << >> /\ IsSpace(s[Len(s)]) THEN rstrip(SubSeq(s, 1, Len(s) - 1)) ELSE s

strip(s) == rstrip(lstrip(s))

----------------------------------------------------------------------------
(* Alias Store: a sequence of entries in the dict's iteration order, names *)
(* unique.  Only the fields the monitor reads are kept.                    *)

HasAlias(als, n) == \E i \in 1..Len(als) : als[i].name = n

(* aliases[n] *)
AliasData(als, n) == als[CHOOSE i \in 1..Len(als) : als[i].name = n]

(* find_alias_for_command returns None *)
NoAlias == [name |-> "", command |-> << >>]

RECURSIVE FP_expand_aliases_in_command(_, _, _)
FP_expand_aliases_in_command(command, als, max_depth) ==
    IF max_depth <= 0 THEN command
    ELSE LET parts == split(command) IN
         IF parts = << >> THEN command
         ELSE LET first_part == parts[1]
                  rest_parts == Tail(parts)
              IN IF HasAlias(als, first_part)
                    /\ AliasData(als, first_part).command # << >>
                 THEN LET alias_command == AliasData(als, first_part).command
                          expanded == IF rest_parts # << >>
                                      THEN alias_command \o <<SP>> \o join(rest_parts)
                                      ELSE alias_command
                      IN FP_expand_aliases_in_command(expanded, als, max_depth - 1)
                 ELSE command

(* the matches list built by the loop of _find_most_specific_alias *)
FP_matches(command, als) ==
    SelectSeq(als, LAMBDA e : e.command = command
                              \/ startswith(command, e.command \o <<SP>>))

(* matches.sort(key=len(alias_command), reverse=True): stable, longest     *)
(* first.  Every match is a prefix of command, so the order by number of   *)
(* atoms is the order by number of characters.                             *)
(* variant: equally long matches come out in reverse order *)
RECURSIVE sort_by_length_desc_reversed(_)
sort_by_length_desc_reversed(ms) ==
    IF ms = << >> THEN << >>
    ELSE LET longest == CHOOSE n \in {Len(ms[i].command) : i \in 1..Len(ms)} :
                            \A i \in 1..Len(ms) : Len(ms[i].command) <= n
             top == SelectSeq(ms, LAMBDA e : Len(e.command) = longest)
         IN [i \in 1..Len(top) |-> top[Len(top) + 1 - i]]
            \o sort_by_length_desc_reversed(
                   SelectSeq(ms, LAMBDA e : Len(e.command) # longest))

RECURSIVE sort_by_length_desc(_)
sort_by_length_desc(ms) ==
    IF ms = << >> THEN << >>
    ELSE LET longest == CHOOSE n \in {Len(ms[i].command) : i \in 1..Len(ms)} :
                            \A i \in 1..Len(ms) : Len(ms[i].command) <= n
         IN SelectSeq(ms, LAMBDA e : Len(e.command) = longest)
            \o sort_by_length_desc(SelectSeq(ms, LAMBDA e : Len(e.command) # longest))

(* variant: with no match, falls back to the first entry of the store *)
FP_find_most_specific_alias_fallback(command, als) ==
    LET matches == FP_matches(command, als) IN
    IF matches = << >> THEN (IF als = << >> THEN NoAlias ELSE als[1])
    ELSE sort_by_length_desc(matches)[1]

FP_find_most_specific_alias(command, als) ==
    LET matches == FP_matches(command, als) IN
    IF matches = << >> THEN NoAlias
    ELSE sort_by_length_desc(matches)[1]

FP_find_alias_for_command(command, als) ==
    LET expanded_command == FP_expand_aliases_in_command(command, als, MaxDepth)
    IN FP_find_most_specific_alias(expanded_command, als)

----------------------------------------------------------------------------
(* The resolver of lazysloth's AliasCollector.  It differs from the one     *)
(* above: the expansion remembers the aliases it has substituted, and the  *)
(* commands of the store are expanded as well before they are matched.     *)

InSeq(x, seq) == \E i \in 1..Len(seq) : seq[i] = x

(* the string returned and the set expanded_aliases, in the order in which *)
(* the names were added                                                    *)
Expansion(command, expanded_aliases) ==
    [command |-> command, expanded_aliases |-> expanded_aliases]

(* variant: the set of expanded aliases is not consulted *)
RECURSIVE expand_aliases_in_command_no_history(_, _, _, _)
expand_aliases_in_command_no_history(command, als, max_depth, expanded_aliases) ==
    IF max_depth <= 0 THEN Expansion(command, expanded_aliases)
    ELSE LET parts == split(command) IN
         IF parts = << >> THEN Expansion(command, expanded_aliases)
         ELSE LET first_part == parts[1]
                  rest_parts == Tail(parts)
              IN IF HasAlias(als, first_part)
                    /\ AliasData(als, first_part).command # << >>
                 THEN LET alias_command == AliasData(als, first_part).command
                          expanded == IF rest_parts # << >>
                                      THEN alias_command \o <<SP>> \o join(rest_parts)
                                      ELSE alias_command
                      IN expand_aliases_in_command_no_history(
                             expanded, als, max_depth - 1,
                             Append(expanded_aliases, first_part))
                 ELSE Expansion(command, expanded_aliases)

RECURSIVE expand_aliases_in_command(_, _, _, _)
expand_aliases_in_command(command, als, max_depth, expanded_aliases) ==
    IF max_depth <= 0 THEN Expansion(command, expanded_aliases)
    ELSE LET parts == split(command) IN
         IF parts = << >> THEN Expansion(command, expanded_aliases)
         ELSE LET first_part == parts[1]
                  rest_parts == Tail(parts)
              IN IF HasAlias(als, first_part) /\ ~InSeq(first_part, expanded_aliases)
                    /\ AliasData(als, first_part).command # << >>
                 THEN LET alias_command == AliasData(als, first_part).command
                          expanded == IF rest_parts # << >>
                                      THEN alias_command \o <<SP>> \o join(rest_parts)
                                      ELSE alias_command
                      IN expand_aliases_in_command(
                             expanded, als, max_depth - 1,
                             Append(expanded_aliases, first_part))
                 ELSE Expansion(command, expanded_aliases)

(* the while loop of _expand_aliases for one entry: current_command and    *)
(* history when the loop is left                                           *)
RECURSIVE expand_alias_loop(_, _, _, _, _)
expand_alias_loop(current_command, als, history, depth, max_depth) ==
    IF ~(depth < max_depth) THEN [command |-> current_command, history |-> history]
    ELSE LET parts == split(current_command) IN
         IF parts = << >> THEN [command |-> current_command, history |-> history]
         ELSE LET first_part == parts[1] IN
              IF HasAlias(als, first_part) /\ ~InSeq(first_part, history)
              THEN LET aliased_command == AliasData(als, first_part).command IN
                   IF aliased_command # << >>
                   THEN expand_alias_loop(
                            strip(aliased_command \o <<SP>> \o join(Tail(parts))),
                            als, Append(history, first_part), depth + 1, max_depth)
                   ELSE [command |-> current_command,
                         history |-> Append(history, first_part)]
              ELSE [command |-> current_command, history |-> history]

(* _expand_aliases: the store with every command expanded *)
expand_aliases(als, max_depth) ==
    [i \in 1..Len(als) |->
        IF als[i].command = << >> THEN als[i]
        ELSE [als[i] EXCEPT !.command =
                  expand_alias_loop(als[i].command, als, <<als[i].name>>,
                                    0, max_depth).command]]

(* the matches list built by the loop of _find_most_specific_alias *)
matches(command, als) ==
    SelectSeq(als, LAMBDA e : e.command = command
                              \/ startswith(command, e.command \o <<SP>>))

(* variant: the least specific match is returned *)
find_most_specific_alias_last(command, als) ==
    LET ms == matches(command, als) IN
    IF ms = << >> THEN NoAlias
    ELSE sort_by_length_desc(ms)[Len(ms)]

find_most_specific_alias(command, als) ==
    LET ms == matches(command, als) IN
    IF ms = << >> THEN NoAlias
    ELSE sort_by_length_desc(ms)[1]

find_alias_for_command(command, als) ==
    LET expanded_command == expand_aliases_in_command(command, als, MaxDepth, << >>).command
    IN find_most_specific_alias(expanded_command, expand_aliases(als, MaxDepth))

----------------------------------------------------------------------------
(* Shell files and the parser of bash/zsh aliases.  A line is a sequence   *)
(* of tokens: a blank, a tab, '=', a quote, or a word (a maximal run of    *)
(* other characters).  The pattern                                         *)
(*     alias\s+([^=\s]+)=(['"]?)([^'"\n]+)\2                               *)
(* tells characters apart only by these classes, and its literal 'alias'   *)
(* has to be followed by white space, so it ends where a word ends.        *)

EQ == "="
SQ == "'"
DQ == "\""

IsQuote(a) == a \in {SQ, DQ}

(* the words of the model that end with 'alias' *)
AliasWords == {"alias", "unalias"}

(* the words of the model that start with '#' *)
HashWords == {"#", "#h"}

(* the words that several tokens of a name spell when put together *)
JoinedWords == { [parts |-> <<SQ, "x", SQ>>, word |-> "'x'"] }

(* the text of a run of tokens with no white space in it, as one word *)
word_of(tokens) ==
    IF Len(tokens) = 1 THEN tokens[1]
    ELSE (CHOOSE j \in JoinedWords : j.parts = tokens).word

(* the character classes of alias_pattern: \s, [^=\s] and [^'"\n] *)
InClass(class, a) ==
    IF class = "space" THEN IsSpace(a)
    ELSE IF class = "name" THEN a # EQ /\ ~IsSpace(a)
    ELSE ~IsQuote(a)

(* the end (exclusive) of the longest run from i of tokens of one class *)
RunEnd(line, i, class) ==
    CHOOSE j \in i..(Len(line) + 1) :
        /\ j = Len(line) + 1 \/ ~InClass(class, line[j])
        /\ \A k \in i..(j - 1) : InClass(class, line[k])

NoMatchAt == [matched |-> FALSE, name |-> "", command |-> << >>]

(* the pattern matched with its literal 'alias' at token p *)
match_at(line, p) ==
    IF ~(line[p] \in AliasWords) THEN NoMatchAt
    ELSE LET n == RunEnd(line, p + 1, "space")
             e == RunEnd(line, n, "name")
             v == e + 1
         IN IF n = p + 1 \/ e = n \/ e > Len(line) \/ line[e] # EQ \/ v > Len(line)
            THEN NoMatchAt
            ELSE IF IsQuote(line[v])
                 THEN LET c == RunEnd(line, v + 1, "text") IN
                      IF c > v + 1 /\ c <= Len(line) /\ line[c] = line[v]
                      THEN [matched |-> TRUE, name |-> word_of(SubSeq(line, n, e - 1)),
                            command |-> SubSeq(line, v + 1, c - 1)]
                      ELSE NoMatchAt
                 ELSE LET c == RunEnd(line, v, "text") IN
                      [matched |-> TRUE, name |-> word_of(SubSeq(line, n, e - 1)),
                       command |-> SubSeq(line, v, c - 1)]

(* re.search: the match at the leftmost position that has one *)
re_search(line) ==
    LET hits == { p \in 1..Len(line) : match_at(line, p).matched } IN
    IF hits = {} THEN NoMatchAt
    ELSE match_at(line, CHOOSE p \in hits : \A q \in hits : p <= q)

(* stripped_line.startswith("#") *)
startswith_hash(stripped_line) ==
    stripped_line # << >> /\ stripped_line[1] \in HashWords

(* stripped_line.startswith("alias ") *)
startswith_alias(stripped_line) ==
    Len(stripped_line) >= 2 /\ stripped_line[1] = "alias" /\ stripped_line[2] = SP

(* variant: the pattern is searched in every line *)
line_is_searched_always(line) == TRUE

(* lines 82-88: the line is neither a comment nor something else *)
line_is_searched(line) ==
    LET stripped_line == lstrip(line) IN
    ~startswith_hash(stripped_line) /\ startswith_alias(stripped_line)

AliasEntry(name, command, shell, source_file) ==
    [name |-> name, command |-> command, shell |-> shell, source_file |-> source_file]

(* aliases[name] = data on a dict: in place when the key exists, else last *)
dict_set(als, entry) ==
    IF HasAlias(als, entry.name)
    THEN [i \in 1..Len(als) |-> IF als[i].name = entry.name THEN entry ELSE als[i]]
    ELSE Append(als, entry)

(* variant: a key that is already in a keeps its value *)
RECURSIVE dict_update_keep(_, _)
dict_update_keep(a, b) ==
    IF b = << >> THEN a
    ELSE dict_update_keep(IF HasAlias(a, Head(b).name) THEN a ELSE Append(a, Head(b)),
                          Tail(b))

(* a.update(b) *)
RECURSIVE dict_update(_, _)
dict_update(a, b) ==
    IF b = << >> THEN a ELSE dict_update(dict_set(a, Head(b)), Tail(b))

(* the loop over the lines of _parse_bash_zsh_aliases *)
RECURSIVE parse_lines(_, _, _, _)
parse_lines(lines, als, config_file, shell) ==
    IF lines = << >> THEN als
    ELSE LET line == Head(lines)
             match == re_search(line)
         IN IF line_is_searched(line) /\ match.matched
            THEN parse_lines(Tail(lines),
                             dict_set(als, AliasEntry(match.name, match.command,
                                                      shell, config_file)),
                             config_file, shell)
            ELSE parse_lines(Tail(lines), als, config_file, shell)

parse_bash_zsh_aliases(fs, config_file, shell) ==
    parse_lines(fs[config_file], << >>, config_file, shell)

----------------------------------------------------------------------------
(* The Alias Store on disk (lazysloth's Config) *)

(* every alias name of the model, in the order of Python's string compare *)
NameOrder == <<"#h", "a", "b", "c", "d", "g", "gc", "gcm", "gs", "gst",
               "k01", "k02", "k03", "k04", "k05", "k06",
               "k07", "k08", "k09", "k10", "k11", "k12", "ls", "x", "y">>

Rank(n) == CHOOSE i \in 1..Len(NameOrder) : NameOrder[i] = n

(* sorted by key *)
RECURSIVE sort_by_name(_)
sort_by_name(als) ==
    IF als = << >> THEN << >>
    ELSE LET first == CHOOSE i \in 1..Len(als) :
                          \A j \in 1..Len(als) : Rank(als[i].name) <= Rank(als[j].name)
         IN <<als[first]>>
            \o sort_by_name(SelectSeq(als, LAMBDA e : e.name # als[first].name))

(* Config.save_aliases_data followed by get_aliases_data: yaml.dump writes *)
(* the keys of a mapping in sorted order and the loader keeps file order   *)
save_aliases_data(data) == sort_by_name(data)

----------------------------------------------------------------------------
(* Collecting and relearning.  A path is modelled by the name of the file  *)
(* in the home directory; a file exists when it is in the domain of fs.    *)

(* _get_config_files *)
get_config_files(shell) ==
    IF shell = "bash" THEN <<".bash_profile", ".bash_profile", ".bash_aliases", ".profile">>
    ELSE IF shell = "zsh" THEN <<".zshrc", ".zsh_profile", ".zshenv", ".profile">>
    ELSE << >>

(* monitored_files of _default_config *)
monitored_files(shell) ==
    IF shell = "bash" THEN <<".bashrc", ".bash_aliases", ".slothrc">>
    ELSE IF shell = "zsh" THEN <<".zshrc", ".zsh_aliases", ".slothrc">>
    ELSE << >>

(* the loop over the files: each existing file is parsed and merged *)
RECURSIVE parse_files(_, _, _, _)
parse_files(fs, paths, shell, als) ==
    IF paths = << >> THEN als
    ELSE IF Head(paths) \in DOMAIN fs
    THEN parse_files(fs, Tail(paths), shell,
                     dict_update(als, parse_bash_zsh_aliases(fs, Head(paths), shell)))
    ELSE parse_files(fs, Tail(paths), shell, als)

collect_bash_zsh_aliases(fs, shell) ==
    parse_files(fs, get_config_files(shell), shell, << >>)

(* collect_all: bash, then zsh, then the store is written *)
collect_all(fs) ==
    save_aliases_data(dict_update(collect_bash_zsh_aliases(fs, "bash"),
                                  collect_bash_zsh_aliases(fs, "zsh")))

(* data.get('shell') *)
shell_of(data) == IF "shell" \in DOMAIN data THEN data.shell ELSE ""

(* alias_data.get('source_file', '') *)
source_file_of(data) == IF "source_file" \in DOMAIN data THEN data.source_file ELSE ""

(* lines 88-99: a new alias is added, a changed or an unchanged one takes   *)
(* the data of the file                                                    *)
RECURSIVE learn_update(_, _)
learn_update(existing_aliases, new_aliases) ==
    IF new_aliases = << >> THEN existing_aliases
    ELSE LET alias_data == Head(new_aliases) IN
         learn_update(
             IF ~HasAlias(existing_aliases, alias_data.name)
             THEN dict_set(existing_aliases, alias_data)
             ELSE IF AliasData(existing_aliases, alias_data.name).command
                     # alias_data.command
             THEN dict_set(existing_aliases, alias_data)
             ELSE dict_set(existing_aliases, alias_data),
             Tail(new_aliases))

(* lines 101-117: the aliases of the shell that are in no file any more    *)
(* are deleted when their source file is monitored                         *)
learn_remove(existing_aliases, existing_from_shell, new_aliases, shell) ==
    SelectSeq(existing_aliases,
              LAMBDA e : ~(/\ HasAlias(existing_from_shell, e.name)
                           /\ ~HasAlias(new_aliases, e.name)
                           /\ InSeq(source_file_of(e), monitored_files(shell))))

(* AutoLearner._learn_from_shell: new_aliases is read from the files, the  *)
(* store is updated with it, the aliases that left are deleted, and the    *)
(* store is saved (each step is bound once, as a value)                    *)
learn_from_shell(als, fs, shell) ==
    IF monitored_files(shell) = << >> THEN als
    ELSE LET existing_from_shell == SelectSeq(als, LAMBDA e : shell_of(e) = shell)
         IN CHOOSE saved \in
                { save_aliases_data(learn_remove(updated, existing_from_shell,
                                                 new_aliases, shell)) :
                    <<new_aliases, updated>> \in
                        { <<new_aliases, learn_update(als, new_aliases)>> :
                            new_aliases \in {parse_files(fs, monitored_files(shell),
                                                          shell, << >>)} } } : TRUE

(* AutoLearner.learn_from_monitored_files: one shell, or bash and then zsh *)
learn_from_monitored_files(als, fs, shell) ==
    IF shell # "" THEN learn_from_shell(als, fs, shell)
    ELSE learn_from_shell(learn_from_shell(als, fs, "bash"), fs, "zsh")

----------------------------------------------------------------------------
(* FileWatcher.  w.mtime is st_mtime of every file that exists, w.recorded *)
(* is the content of .file_mtimes.                                         *)

(* the elements of a sequence *)
Elements(seq) == { seq[i] : i \in 1..Len(seq) }

(* lines 31-34: all_files *)
all_monitored_files == Elements(monitored_files("bash")) \cup Elements(monitored_files("zsh"))

(* _get_changed_files: the existing files that are new or whose            *)
(* modification time differs from the recorded one                         *)
get_changed_files(w, fs, file_paths) ==
    { f \in file_paths :
        /\ f \in DOMAIN fs
        /\ f \notin DOMAIN w.recorded \/ w.recorded[f] # w.mtime[f] }

(* current_mtimes, which line 95 saves *)
current_mtimes(w, fs, file_paths) ==
    [f \in file_paths \cap DOMAIN fs |-> w.mtime[f]]

(* variant: every shell is relearned when a file changed *)
shells_to_relearn_all(changed_files) ==
    IF changed_files = {} THEN {} ELSE {"bash", "zsh"}

(* lines 44-47: the shells with a changed file in their list *)
shells_to_relearn(changed_files) ==
    { shell \in {"bash", "zsh"} :
        \E f \in Elements(monitored_files(shell)) : f \in changed_files }

(* learned + updated + removed of _learn_from_shell is positive: a name   *)
(* came, a name went or a command changed                                  *)
learn_changes(als, learned) ==
    \/ { e.name : e \in Elements(als) } # { e.name : e \in Elements(learned) }
    \/ \E e \in Elements(learned) :
           HasAlias(als, e.name) /\ AliasData(als, e.name).command # e.command

(* lines 51-56: the shells are relearned in the order in which the set     *)
(* shells_to_relearn is iterated, which holds two shells at most           *)
(* (learn_from_monitored_files(shell) is _learn_from_shell(shell), and     *)
(* does nothing for "none"); changes is total_changes > 0                  *)
relearn_shells(als, fs, order) ==
    LET shell1 == IF Len(order) >= 1 THEN order[1] ELSE "none"
        shell2 == IF Len(order) >= 2 THEN order[2] ELSE "none"
        passes == { [first |-> first, second |-> learn_from_shell(first, fs, shell2)] :
                      first \in {learn_from_shell(als, fs, shell1)} }
    IN CHOOSE done \in { [aliases |-> pass.second,
                          changes |-> learn_changes(als, pass.first)
                                      \/ learn_changes(pass.first, pass.second)] :
                            pass \in passes } : TRUE

(* the orders in which a set of shells can be iterated *)
Orders(shells) ==
    IF shells = {} THEN { << >> }
    ELSE IF shells = {"bash", "zsh"} THEN { <<"bash", "zsh">>, <<"zsh", "bash">> }
    ELSE { <<shell>> : shell \in shells }

(* check_and_relearn_if_needed; order is the iteration order of the set of *)
(* shells, raised tells that the Alias Store could not be read or written  *)
(* by the first relearn, which lines 64-66 turn into False.  The           *)
(* modification times are saved by _get_changed_files (line 95), before    *)
(* anything is relearned.                                                  *)
check_and_relearn_if_needed_io(als, fs, w, order, raised) ==
    LET changed_files == get_changed_files(w, fs, all_monitored_files)
        done == relearn_shells(als, fs, order)
    IN IF changed_files = {}
       THEN [aliases |-> als,
             watch |-> [w EXCEPT !.recorded = current_mtimes(w, fs, all_monitored_files),
                                 !.relearned = << >>, !.returned = FALSE]]
       ELSE IF raised
       THEN [aliases |-> als,
             watch |-> [w EXCEPT !.recorded = current_mtimes(w, fs, all_monitored_files),
                                 !.relearned = <<Head(order)>>, !.returned = FALSE]]
       ELSE [aliases |-> done.aliases,
             watch |-> [w EXCEPT !.recorded = current_mtimes(w, fs, all_monitored_files),
                                 !.relearned = order, !.returned = done.changes]]

----------------------------------------------------------------------------
(* SlothRC: the file ~/.slothrc of the aliases the user added *)

BS == "\\"

RcFile == ".slothrc"

(* the file f of fs holds lines afterwards *)
write_file(fs, f, lines) ==
    [g \in (DOMAIN fs) \cup {f} |-> IF g = f THEN lines ELSE fs[g]]

(* name -> command of _read_aliases *)
RcEntry(name, command) == [name |-> name, command |-> command]

(* s.find(a) + 1 *)
IndexOf(s, a) ==
    IF \E i \in 1..Len(s) : s[i] = a
    THEN CHOOSE i \in 1..Len(s) : s[i] = a /\ \A k \in 1..(i - 1) : s[k] # a
    ELSE 0

(* lines 67-71: one pair of quotes around the command is removed *)
rc_remove_quotes(alias_command) ==
    IF alias_command # << >> /\ Head(alias_command) = DQ
       /\ alias_command[Len(alias_command)] = DQ
    THEN SubSeq(alias_command, 2, Len(alias_command) - 1)
    ELSE IF alias_command # << >> /\ Head(alias_command) = SQ
            /\ alias_command[Len(alias_command)] = SQ
    THEN SubSeq(alias_command, 2, Len(alias_command) - 1)
    ELSE alias_command

(* the loop of _read_aliases *)
RECURSIVE rc_read_lines(_, _)
rc_read_lines(lines, als) ==
    IF lines = << >> THEN als
    ELSE LET line == strip(Head(lines))
             alias_part == slice_from(line, 2)
             eq == IndexOf(alias_part, EQ)
         IN IF line = << >> \/ startswith_hash(line)
            THEN rc_read_lines(Tail(lines), als)
            ELSE IF startswith_alias(line) /\ eq > 0
            THEN LET alias_name == strip(SubSeq(alias_part, 1, eq - 1))
                     alias_command == strip(SubSeq(alias_part, eq + 1, Len(alias_part)))
                 IN rc_read_lines(Tail(lines),
                                  dict_set(als,
                                           RcEntry(IF alias_name = << >> THEN ""
                                                   ELSE word_of(alias_name),
                                                   rc_remove_quotes(alias_command))))
            ELSE rc_read_lines(Tail(lines), als)

rc_read_aliases(fs) ==
    IF RcFile \notin DOMAIN fs THEN << >>
    ELSE rc_read_lines(fs[RcFile], << >>)

(* command.replace('"', '\\"') *)
RECURSIVE escape_quotes(_)
escape_quotes(command) ==
    IF command = << >> THEN << >>
    ELSE (IF Head(command) = DQ THEN <<BS, DQ>> ELSE <<Head(command)>>)
         \o escape_quotes(Tail(command))

(* lines 85-90: the header of the file *)
RcHeader ==
    << <<"#", SP, "LazySloth", SP, "user-defined", SP, "aliases">>,
       <<"#", SP, "This", SP, "file", SP, "is", SP, "automatically", SP, "managed",
         SP, "by", SP, "LazySloth">>,
       <<"#", SP, "You", SP, "can", SP, "edit", SP, "it", SP, "manually,", SP, "but",
         SP, "changes", SP, "may", SP, "be", SP, "overwritten">>,
       << >> >>

(* _write_aliases: the header, then one line per alias in sorted order *)
rc_write_aliases(fs, als) ==
    LET sorted == sort_by_name(als)
    IN write_file(fs, RcFile,
                  RcHeader
                  \o [i \in 1..Len(sorted) |->
                         <<"alias", SP, sorted[i].name, EQ, DQ>>
                         \o escape_quotes(sorted[i].command) \o <<DQ>>])

(* SlothRC.add_alias *)
rc_add_alias(fs, alias_name, command) ==
    rc_write_aliases(fs, dict_set(rc_read_aliases(fs), RcEntry(alias_name, command)))

(* SlothRC.remove_alias: the file is rewritten when the name is in it *)
rc_remove_alias(fs, alias_name) ==
    LET existing_aliases == rc_read_aliases(fs)
    IN IF HasAlias(existing_aliases, alias_name)
       THEN [files |-> rc_write_aliases(fs, SelectSeq(existing_aliases,
                                                      LAMBDA e : e.name # alias_name)),
             removed |-> TRUE]
       ELSE [files |-> fs, removed |-> FALSE]

(* SlothRC.get_aliases *)
rc_get_aliases(fs) == rc_read_aliases(fs)

----------------------------------------------------------------------------
(* CommandMonitor *)

(* record_command returns None *)
None == [action |-> "none", suggested |-> << >>, command |-> << >>]

MonitorResult(action, suggested, command) ==
    [action |-> action, suggested |-> suggested, command |-> command]

(* variant: the whole command is looked up in ignored_commands *)
command_base_whole(command) == command

(* command.split()[0] if command.split() else command *)
command_base(command) ==
    IF split(command) # << >> THEN <<split(command)[1]>> ELSE command

is_using_optimal_alias(command, als) ==
    LET command_parts == split(command) IN
    IF command_parts = << >> THEN FALSE
    ELSE LET first_part == command_parts[1] IN
         IF ~HasAlias(als, first_part) THEN FALSE
         ELSE LET expanded_command == FP_expand_aliases_in_command(command, als, MaxDepth)
                  optimal_alias == FP_find_alias_for_command(expanded_command, als)
              IN IF optimal_alias = NoAlias THEN TRUE
                 ELSE IF first_part = optimal_alias.name THEN TRUE
                 ELSE IF AliasData(als, first_part).command = optimal_alias.command THEN TRUE
                 ELSE FALSE

(* variant: the arguments typed after the command are dropped *)
suggestion_text_name_only(expanded_command, alias_name, alias_command) ==
    <<SQ, alias_name, SQ>>

(* lines 152-162: the suggestion once expanded_command is known, in the    *)
(* single quotes of the f-strings                                          *)
suggestion_text(expanded_command, alias_name, alias_command) ==
    IF expanded_command = alias_command THEN <<SQ, alias_name, SQ>>
    ELSE IF startswith(expanded_command, alias_command \o <<SP>>)
         THEN LET args == slice_from(expanded_command, Len(alias_command))
              IN <<SQ, alias_name>> \o args \o <<SQ>>
    ELSE <<SQ, alias_name, SQ>>

generate_alias_suggestion(original_command, alias_name, alias_data, als) ==
    suggestion_text(FP_expand_aliases_in_command(original_command, als, MaxDepth),
                    alias_name, alias_data.command)

(* variant: blocks only above the threshold *)
check_for_action_strict(command, command_stats, existing_alias, cfg, als) ==
    LET count == command_stats.count
        suggested == generate_alias_suggestion(command, existing_alias.name, existing_alias, als)
    IN IF existing_alias = NoAlias THEN None
       ELSE IF cfg.blocking_enabled /\ count > cfg.blocking_threshold
            THEN MonitorResult("block", suggested, command)
       ELSE IF cfg.notice_threshold <= count
            THEN MonitorResult("notice", suggested, command)
       ELSE None

(* variant: the notice zone is a window that ends at blocking_threshold *)
check_for_action_window(command, command_stats, existing_alias, cfg, als) ==
    LET count == command_stats.count
        suggested == generate_alias_suggestion(command, existing_alias.name, existing_alias, als)
    IN IF existing_alias = NoAlias THEN None
       ELSE IF cfg.blocking_enabled /\ count >= cfg.blocking_threshold
            THEN MonitorResult("block", suggested, command)
       ELSE IF cfg.notice_threshold <= count /\ count < cfg.blocking_threshold
            THEN MonitorResult("notice", suggested, command)
       ELSE None

(* variant: blocks only when the count is exactly the threshold *)
check_for_action_once(command, command_stats, existing_alias, cfg, als) ==
    LET count == command_stats.count
        suggested == generate_alias_suggestion(command, existing_alias.name, existing_alias, als)
    IN IF existing_alias = NoAlias THEN None
       ELSE IF cfg.blocking_enabled /\ count = cfg.blocking_threshold
            THEN MonitorResult("block", suggested, command)
       ELSE IF cfg.notice_threshold <= count
            THEN MonitorResult("notice", suggested, command)
       ELSE None

check_for_action(command, command_stats, existing_alias, cfg, als) ==
    LET count == command_stats.count IN
    IF existing_alias = NoAlias THEN None
    ELSE IF cfg.blocking_enabled /\ count >= cfg.blocking_threshold
         THEN MonitorResult("block",
                  generate_alias_suggestion(command, existing_alias.name, existing_alias, als),
                  command)
    ELSE IF cfg.notice_threshold <= count
         THEN MonitorResult("notice",
                  generate_alias_suggestion(command, existing_alias.name, existing_alias, als),
                  command)
    ELSE None

(* variant: a new entry starts at count 1 and is then incremented *)
update_stats_from_one(st, alias, t) ==
    LET entry == IF alias.name \in DOMAIN st
                 THEN st[alias.name]
                 ELSE [count |-> 1, first_seen |-> t, last_seen |-> t,
                       alias_command |-> alias.command]
        bumped == [entry EXCEPT !.count = @ + 1, !.last_seen = t]
    IN [n \in DOMAIN st \cup {alias.name} |-> IF n = alias.name THEN bumped ELSE st[n]]

(* variant: only the entry of the recorded alias is written back *)
update_stats_only_alias(st, alias, t) ==
    LET entry == IF alias.name \in DOMAIN st
                 THEN st[alias.name]
                 ELSE [count |-> 0, first_seen |-> t, last_seen |-> t,
                       alias_command |-> alias.command]
        bumped == [entry EXCEPT !.count = @ + 1, !.last_seen = t]
    IN [n \in {alias.name} |-> bumped]

(* variant: the write-back stamps every entry with the time of the call *)
update_stats_stamp_all(st, alias, t) ==
    LET entry == IF alias.name \in DOMAIN st
                 THEN st[alias.name]
                 ELSE [count |-> 0, first_seen |-> t, last_seen |-> t,
                       alias_command |-> alias.command]
        bumped == [entry EXCEPT !.count = @ + 1, !.last_seen = t]
    IN [n \in DOMAIN st \cup {alias.name} |->
           IF n = alias.name THEN bumped ELSE [st[n] EXCEPT !.last_seen = t]]

(* lines 64-78: load, initialise the entry if missing, count += 1, last_seen *)
update_stats(st, alias, t) ==
    LET entry == IF alias.name \in DOMAIN st
                 THEN st[alias.name]
                 ELSE [count |-> 0, first_seen |-> t, last_seen |-> t,
                       alias_command |-> alias.command]
        bumped == [entry EXCEPT !.count = @ + 1, !.last_seen = t]
    IN [n \in DOMAIN st \cup {alias.name} |-> IF n = alias.name THEN bumped ELSE st[n]]

(* Config.save_stats_data followed by get_stats_data: the whole mapping *)
save_stats_data(data) == data

(* record_command: the signal returned, the Stats Store left on disk, and  *)
(* the alias the call was counted for ("" when the call was not tracked).  *)
Untracked(st) == [result |-> None, stats |-> st, alias |-> ""]

(* variant: the flag is not consulted *)
monitoring_enabled_always(cfg) == TRUE

(* self.config.get('monitoring.enabled', True) *)
monitoring_enabled(cfg) == cfg.enabled

record_command(command, cfg, als, st, t) ==
    IF ~monitoring_enabled(cfg) THEN Untracked(st)
    ELSE IF command_base(command) \in cfg.ignored_commands THEN Untracked(st)
    ELSE IF is_using_optimal_alias(command, als) THEN Untracked(st)
    ELSE LET existing_alias == FP_find_alias_for_command(command, als) IN
         IF existing_alias = NoAlias THEN Untracked(st)
         ELSE LET new_stats == update_stats(st, existing_alias, t) IN
              [result |-> check_for_action(command, new_stats[existing_alias.name],
                                           existing_alias, cfg, als),
               stats  |-> save_stats_data(new_stats),
               alias  |-> existing_alias.name]

----------------------------------------------------------------------------
(* Failures of the file operations behind record_command.  A fault names   *)
(* the call that raises and the class of the exception: OSError stands for *)
(* what open() and the YAML loader raise on an unreadable, unwritable or   *)
(* corrupt file, TypeError for what a store of the wrong shape raises.     *)

(* no exception *)
NoError == ""

(* no shell file exists *)
NoFiles == << >>

(* no hook process is inside record_command *)
NoProcs == << >>

(* no file has a modification time, none is recorded *)
NoWatch == [mtime |-> << >>, recorded |-> << >>, relearned |-> << >>, returned |-> FALSE]

Exceptions == {"OSError", "TypeError"}

NoFault == [at |-> "none", exc |-> NoError]

(* get_aliases_data at lines 97, 107 (inside find_alias_for_command), 58   *)
(* (the same) and 142; get_stats_data at 65; save_stats_data at 81, whose  *)
(* open() fails before the file is touched                                 *)
RecordFaultPoints == {"optimal_load", "optimal_resolve", "resolve_load",
                      "stats_load", "stats_save", "suggest_load"}

(* except (AttributeError, TypeError, KeyError) at line 132 *)
optimal_alias_catches(exc) == exc \in {"AttributeError", "TypeError", "KeyError"}

(* except (AttributeError, TypeError) at line 148 *)
suggestion_catches(exc) == exc \in {"AttributeError", "TypeError"}

(* _is_using_optimal_alias: the value returned, or the exception that      *)
(* leaves it                                                               *)
is_using_optimal_alias_io(command, als, fault) ==
    LET command_parts == split(command)
        failed == IF optimal_alias_catches(fault.exc)
                  THEN [value |-> FALSE, raised |-> NoError]
                  ELSE [value |-> FALSE, raised |-> fault.exc]
    IN IF command_parts = << >> THEN [value |-> FALSE, raised |-> NoError]
       ELSE IF fault.at = "optimal_load" THEN failed
       ELSE IF ~HasAlias(als, command_parts[1]) THEN [value |-> FALSE, raised |-> NoError]
       ELSE IF fault.at = "optimal_resolve" THEN failed
       ELSE [value |-> is_using_optimal_alias(command, als), raised |-> NoError]

(* _generate_alias_suggestion: on a caught exception the original command  *)
(* takes the place of the expanded one                                     *)
generate_alias_suggestion_io(original_command, alias_name, alias_data, als, fault) ==
    IF fault.at = "suggest_load"
    THEN IF suggestion_catches(fault.exc)
         THEN [value |-> suggestion_text(original_command, alias_name, alias_data.command),
               raised |-> NoError]
         ELSE [value |-> << >>, raised |-> fault.exc]
    ELSE [value |-> generate_alias_suggestion(original_command, alias_name, alias_data, als),
          raised |-> NoError]

(* _check_for_action with the suggestion built by the call above *)
check_for_action_io(command, command_stats, existing_alias, cfg, als, fault) ==
    LET r == check_for_action(command, command_stats, existing_alias, cfg, als) IN
    IF r = None THEN [result |-> None, raised |-> NoError]
    ELSE LET s == generate_alias_suggestion_io(command, existing_alias.name,
                                               existing_alias, als, fault)
         IN IF s.raised # NoError THEN [result |-> None, raised |-> s.raised]
            ELSE [result |-> MonitorResult(r.action, s.value, command), raised |-> NoError]

Outcome(rec, exc) ==
    [result |-> rec.result, stats |-> rec.stats, alias |-> rec.alias, raised |-> exc]

(* record_command with the failing call: what it returns or raises, and    *)
(* the Stats Store it leaves on disk                                       *)
record_command_io(command, cfg, als, st, t, fault) ==
    IF ~monitoring_enabled(cfg) THEN Outcome(Untracked(st), NoError)
    ELSE IF command_base(command) \in cfg.ignored_commands
         THEN Outcome(Untracked(st), NoError)
    ELSE LET optimal == is_using_optimal_alias_io(command, als, fault) IN
         IF optimal.raised # NoError THEN Outcome(Untracked(st), optimal.raised)
         ELSE IF optimal.value THEN Outcome(Untracked(st), NoError)
         ELSE IF fault.at = "resolve_load" THEN Outcome(Untracked(st), fault.exc)
         ELSE LET existing_alias == FP_find_alias_for_command(command, als) IN
              IF existing_alias = NoAlias THEN Outcome(Untracked(st), NoError)
              ELSE IF fault.at \in {"stats_load", "stats_save"}
                   THEN Outcome(Untracked(st), fault.exc)
              ELSE LET new_stats == update_stats(st, existing_alias, t)
                       action == check_for_action_io(command, new_stats[existing_alias.name],
                                                     existing_alias, cfg, als, fault)
                   IN [result |-> action.result,
                       stats  |-> save_stats_data(new_stats),
                       alias  |-> existing_alias.name,
                       raised |-> action.raised]

----------------------------------------------------------------------------
(* Hook *)

(* ' '.join(sys.argv[1:]) where every argument is itself a string *)
RECURSIVE join_args(_)
join_args(args) ==
    IF args = << >> THEN << >>
    ELSE IF Len(args) = 1 THEN args[1]
    ELSE args[1] \o <<SP>> \o join_args(Tail(args))

(* words that contain the substring 'fastparrot' *)
FastparrotWords == {"fastparrot", "fastparrot.log"}

(* 'fastparrot' in command *)
contains_fastparrot(command) ==
    \E i \in 1..Len(command) : command[i] \in FastparrotWords

(* command.startswith('fastparrot') *)
startswith_fastparrot(command) ==
    command # << >> /\ command[1] \in FastparrotWords

NoExit == -1

(* FileWatcher.check_and_relearn_if_needed as seen by the hook: when a     *)
(* monitored file changed, the Alias Store is rewritten from the files.    *)
check_and_relearn_if_needed(als, changed, learned) ==
    IF changed THEN learned ELSE als

(* variant: any signal makes the hook fail *)
hook_exit_status_any(res) ==
    IF res # None THEN 1 ELSE 0

(* lines 32-45: sys.exit(1) when the result is blocking, sys.exit(0) otherwise *)
hook_exit_status(res) ==
    IF res # None /\ res.action = "block" THEN 1 ELSE 0

(* main(): the exit status, the output, and what record_command did.       *)
(* skipped: record_command was not called.                                 *)
hook_main(args, cfg, als, st, t) ==
    IF args = << >>
    THEN [exit_code |-> 0, stdout |-> << >>, called |-> FALSE,
          command |-> << >>, rec |-> Untracked(st)]
    ELSE LET command == strip(join_args(args)) IN
         IF command = << >> \/ startswith_fastparrot(command) \/ contains_fastparrot(command)
         THEN [exit_code |-> 0, stdout |-> << >>, called |-> FALSE,
               command |-> command, rec |-> Untracked(st)]
         ELSE LET rec == record_command(command, cfg, als, st, t) IN
              [exit_code |-> hook_exit_status(rec.result),
               stdout    |-> IF rec.result # None THEN <<rec.result>> ELSE << >>,
               called    |-> TRUE,
               command   |-> command,
               rec       |-> rec]

(* FileWatcher() and CommandMonitor() read config.yaml when constructed;   *)
(* print(result.message) writes the message                                *)
HookFaultPoints == {"watcher", "monitor", "print"}

(* variant: the handler is written for one class only *)
hook_catches_narrow(exc) == exc = "TypeError"

(* except Exception at line 39: everything but the SystemExit of line 38 *)
hook_catches(exc) == exc # "SystemExit"

(* print("FastParrot failed:", e): a line of output, kept in the shape of  *)
(* the messages so that stdout stays a sequence of one kind                *)
FailureLine(exc) == MonitorResult("FastParrot failed:", <<exc>>, << >>)

(* lines 39-45: the handler prints the exception and the process exits 0;  *)
(* an exception that is not handled ends the process with status 1         *)
hook_exception_exit(exc, command, rec) ==
    IF hook_catches(exc)
    THEN [exit_code |-> 0, stdout |-> <<FailureLine(exc)>>,
          called |-> FALSE, command |-> command, rec |-> rec]
    ELSE [exit_code |-> 1, stdout |-> << >>,
          called |-> FALSE, command |-> command, rec |-> rec]

(* main() with the failing call *)
hook_main_io(args, cfg, als, st, t, fault) ==
    IF args = << >>
    THEN [exit_code |-> 0, stdout |-> << >>, called |-> FALSE,
          command |-> << >>, rec |-> Outcome(Untracked(st), NoError)]
    ELSE LET command == strip(join_args(args)) IN
         IF command = << >> \/ startswith_fastparrot(command) \/ contains_fastparrot(command)
         THEN [exit_code |-> 0, stdout |-> << >>, called |-> FALSE,
               command |-> command, rec |-> Outcome(Untracked(st), NoError)]
         ELSE IF fault.at \in {"watcher", "monitor"}
              THEN hook_exception_exit(fault.exc, command, Outcome(Untracked(st), fault.exc))
         ELSE LET rec == record_command_io(command, cfg, als, st, t, fault) IN
              IF rec.raised # NoError
              THEN [hook_exception_exit(rec.raised, command, rec) EXCEPT !.called = TRUE]
              ELSE IF rec.result # None /\ fault.at = "print"
                   THEN [hook_exception_exit(fault.exc, command, rec) EXCEPT !.called = TRUE]
              ELSE [exit_code |-> hook_exit_status(rec.result),
                    stdout    |-> IF rec.result # None THEN <<rec.result>> ELSE << >>,
                    called    |-> TRUE,
                    command   |-> command,
                    rec       |-> rec]

----------------------------------------------------------------------------
(* Inputs *)

W(w) == <<w>>

GitStatus      == <<"git", SP, "status">>
GitStatusShort == <<"git", SP, "status", SP, "--short">>

(* gs -> 'git status' *)
StoreGs == << [name |-> "gs", command |-> GitStatus] >>

(* two names for one command *)
StoreTwin == << [name |-> "gs",  command |-> GitStatus],
                [name |-> "gst", command |-> GitStatus] >>

(* an alias and a longer one behind it *)
StoreChain == << [name |-> "g",  command |-> W("git")],
                 [name |-> "gs", command |-> GitStatus] >>

(* an alias defined through another alias: gs -> 'g status' *)
StoreVia == << [name |-> "g",  command |-> W("git")],
               [name |-> "gs", command |-> <<"g", SP, "status">>] >>

(* the stores of the two sessions *)
RaceStores == { StoreChain, StoreVia }

(* a -> 'b', b -> 'c', c -> 'a' *)
StoreCycle == << [name |-> "a", command |-> W("b")],
                 [name |-> "b", command |-> W("c")],
                 [name |-> "c", command |-> W("a")] >>

(* an alias that names itself: ls -> 'ls --color' *)
StoreSelf == << [name |-> "ls", command |-> <<"ls", SP, "--color">>] >>

Stores == { << >>, StoreGs, StoreTwin, StoreChain, StoreCycle, StoreSelf }

(* the aliases a suggestion is asked for: every entry of every store *)
SuggestedAliases == UNION { { store[i] : i \in 1..Len(store) } : store \in Stores }

Commands == { << >>, GitStatus, GitStatusShort, W("gs"), W("gst"),
              <<"g", SP, "status">>, W("a"), W("ls") }

Argvs == { << >>, << << >> >>, << W("git"), W("status") >>, << GitStatus >>,
           << W("gs") >>, << W("a") >>, << W("g"), W("status"), << >> >>,
           << W("fastparrot"), W("status") >>, << W("cat"), W("fastparrot.log") >> }

Thresholds == 1..MaxThreshold

NoticeThresholds == 1..MaxNotice

IgnoredSets == { {}, {W("git")} }

Configs == [enabled : BOOLEAN, notice_threshold : NoticeThresholds,
            blocking_threshold : Thresholds, blocking_enabled : BOOLEAN,
            ignored_commands : IgnoredSets]

(* an option of the monitor command: << >> when not given, <<v>> when given *)
MonitorOption(enabled, action, notice_threshold, block_threshold) ==
    [enabled |-> enabled, action |-> action,
     notice_threshold |-> notice_threshold, block_threshold |-> block_threshold]

(* the command lines of the monitor command that are tried *)
MonitorOptions ==
    { MonitorOption(<<b>>, << >>, << >>, << >>) : b \in BOOLEAN }
    \cup { MonitorOption(<< >>, <<a>>, << >>, << >>) : a \in {"none", "notice", "block"} }
    \cup { MonitorOption(<< >>, << >>, <<n>>, << >>) : n \in NoticeThresholds }
    \cup { MonitorOption(<< >>, << >>, << >>, <<n>>) : n \in Thresholds }
    \cup { MonitorOption(<<TRUE>>, <<"block">>, <<1>>, <<MaxThreshold>>),
           MonitorOption(<< >>, << >>, << >>, << >>) }

(* g -> 'git', gc -> 'git commit', gcm -> 'git commit -m' *)
StoreP4 == << [name |-> "g",   command |-> W("git")],
              [name |-> "gc",  command |-> <<"git", SP, "commit">>],
              [name |-> "gcm", command |-> <<"git", SP, "commit", SP, "-m">>] >>

(* a chain longer than the depth limit: k01 -> 'k02', ..., k12 -> 'end' *)
ChainNames == <<"k01", "k02", "k03", "k04", "k05", "k06",
                "k07", "k08", "k09", "k10", "k11", "k12">>

StoreDeep ==
    [i \in 1..Len(ChainNames) |->
        [name |-> ChainNames[i],
         command |-> IF i < Len(ChainNames) THEN W(ChainNames[i + 1]) ELSE W("end")]]

(* the monitoring section of _default_config *)
DefaultConfig == [enabled |-> TRUE, notice_threshold |-> 1, blocking_threshold |-> 5,
                  blocking_enabled |-> TRUE, ignored_commands |-> {}]

(* the stores on disk when the resolver is first used *)
SlothStores == { << >>, StoreP4, StoreDeep, StoreTwin }

(* the arguments of the add command that are tried *)
AddNames == {"", "a", "b", "gs", "k01"}

AddCommands == { << >>, <<SP>>, W("a"), W("b"), GitStatus }

(* the commands that are resolved *)
Queries == { << >>, <<SP>>, W("a"), W("b"), W("k01"), GitStatus, GitStatusShort,
             <<"g", SP, "status">>, <<"g", SP, "commit">>,
             <<"g", SP, "commit", SP, "-m", SP, "'hello'">> }

(* lines of shell files *)
LineXa       == <<"alias", SP, "x", EQ, SQ, "a", SQ>>
LineXb       == <<"alias", SP, "x", EQ, DQ, "b", DQ>>
LineYIndent  == <<SP, TAB, "alias", SP, SP, "y", EQ, "b", SP, "-l">>
LineComment  == <<"#", SP, "alias", SP, "x", EQ, SQ, "c", SQ>>
LineCommentIndent == <<SP, SP, "#h", SP, "alias", SP, "y", EQ, SQ, "c", SQ>>
LineSemicolon == <<"echo", SP, "hi;", SP, "alias", SP, "x", EQ, SQ, "c", SQ>>
LineAnd      == <<"cd", SP, "&&", SP, "alias", SP, "y", EQ, "c">>
LineTab      == <<"alias", TAB, "x", EQ, SQ, "c", SQ>>
LineUnalias  == <<"unalias", SP, "y", EQ, SQ, "c", SQ>>
LineEmpty    == <<"alias", SP, "y", EQ, SQ, SQ>>
LineBlank    == <<"alias", SP, "y", EQ, SQ, SP, SQ>>
LineTwice    == <<"alias", SP, "-p;", SP, "alias", SP, "y", EQ, SQ, "a", SQ, SP, "#", SP, "c">>

Lines == { LineXa, LineXb, LineYIndent, LineComment, LineCommentIndent, LineSemicolon,
           LineAnd, LineTab, LineUnalias, LineEmpty, LineBlank, LineTwice }

Shells == {"bash", "zsh"}

(* the shell files the user edits: one that is collected and monitored for *)
(* bash, one that is collected for both shells and not monitored, one that *)
(* is collected and monitored for zsh                                      *)
HomeFiles == {".bash_aliases", ".profile", ".zshrc"}

(* the lines the user writes in them *)
HomeLines == {LineXa, LineXb, LineBlank, LineEmpty}

(* the monitored files the user changes: one of bash, one of zsh, and the *)
(* one both shells monitor                                               *)
WatchFiles == {".bash_aliases", ".zshrc", ".slothrc"}

(* the lines the user writes in them *)
WatchLines == {LineXa, LineYIndent}

(* the configuration files the user writes, one of bash and one of both   *)
(* shells (the installer creates the others when it needs them), and the   *)
(* lines written in them: an alias, an indented alias                      *)
InstallFiles == {".bash_profile", ".profile"}

InstallLines == { LineXa, LineYIndent }

(* the names and commands given to SlothRC: a word, two words, a command  *)
(* in single quotes, a command with double quotes in it                    *)
RcNames == {"x", "y"}

RcCommands == { <<"a">>, <<"b", SP, "-l">>, <<SQ, "c", SQ>>,
                <<"echo", SP, DQ, "hi", DQ>> }

(* what the user gives to sloth add *)
LearnNames == {"", "x"}

LearnCommands == { << >>, <<SP>>, <<SQ, "c", SQ>> }

(* the configurations under which the failing runs are followed *)
FaultConfigs == [enabled : BOOLEAN, notice_threshold : {1},
                 blocking_threshold : {1, 2}, blocking_enabled : BOOLEAN,
                 ignored_commands : IgnoredSets]

(* the configuration of the two sessions: notice from the first call on,   *)
(* block from the second                                                  *)
RaceConfig == [enabled |-> TRUE, notice_threshold |-> 1, blocking_threshold |-> 2,
               blocking_enabled |-> TRUE, ignored_commands |-> {}]

(* the failing call of one record_command, if any: both classes where the  *)
(* code has a handler that tells them apart, OSError elsewhere             *)
RecordFaults ==
    {NoFault}
    \cup [at : {"optimal_load", "optimal_resolve", "suggest_load"}, exc : Exceptions]
    \cup [at : RecordFaultPoints, exc : {"OSError"}]

(* the failing call of one hook process, if any *)
HookFaults == RecordFaults \cup [at : HookFaultPoints, exc : {"OSError"}]

(* what the shell files hold when the watcher relearns during a failing run *)
RelearnedStores == {StoreGs, StoreChain}

----------------------------------------------------------------------------
(* History *)

NoCall == [op |-> "none", command |-> << >>, alias |-> "", called |-> FALSE]

NoRun == [live |-> FALSE, command |-> << >>, outcomes |-> << >>]

(* the run continues while the same command is recorded again and nothing  *)
(* else happens in between; it is followed for MaxClock calls              *)
RunAfter(command, action) ==
    IF run.live /\ Len(run.outcomes) < MaxClock
       /\ (run.outcomes = << >> \/ run.command = command)
    THEN [live |-> TRUE, command |-> command, outcomes |-> Append(run.outcomes, action)]
    ELSE NoRun

BlockedAfter(rec) ==
    IF rec.result.action = "block" THEN blocked \cup {rec.alias} ELSE blocked

----------------------------------------------------------------------------
(* State machine *)

Init ==
    /\ aliases \in Stores
    /\ stats = << >>
    /\ config \in Configs
    /\ now = 0
    /\ call = NoCall
    /\ result = None
    /\ exit_code = NoExit
    /\ stdout = << >>
    /\ run = [live |-> TRUE, command |-> << >>, outcomes |-> << >>]
    /\ blocked = {}
    /\ error = NoError
    /\ resolved = NoAlias
    /\ files = NoFiles
    /\ parsed = << >>
    /\ procs = NoProcs
    /\ completed = << >>
    /\ watch = NoWatch
    /\ expected = << >>

(* a direct call of CommandMonitor.record_command *)
RecordCommand(command) ==
    /\ now < MaxClock
    /\ \E rec \in {record_command(command, config, aliases, stats, now + 1)} :
        /\ stats' = rec.stats
        /\ result' = rec.result
        /\ now' = IF rec.alias # "" THEN now + 1 ELSE now
        /\ call' = [op |-> "record", command |-> command, alias |-> rec.alias,
                    called |-> TRUE]
        /\ run' = RunAfter(command, rec.result.action)
        /\ blocked' = BlockedAfter(rec)
    /\ exit_code' = NoExit
    /\ stdout' = << >>
    /\ error' = NoError
    /\ UNCHANGED <<aliases, config, resolved, files, parsed,
                   procs, completed, watch, expected>>

(* one hook process: python -m ...monitors.hook args *)
HookMain(args, changed, learned) ==
    /\ now < MaxClock
    /\ aliases' = check_and_relearn_if_needed(aliases, changed, learned)
    /\ \E h \in {hook_main(args, config, aliases', stats, now + 1)} :
        /\ stats' = h.rec.stats
        /\ result' = h.rec.result
        /\ now' = IF h.rec.alias # "" THEN now + 1 ELSE now
        /\ call' = [op |-> "hook", command |-> h.command, alias |-> h.rec.alias,
                    called |-> h.called]
        /\ exit_code' = h.exit_code
        /\ stdout' = h.stdout
        /\ run' = IF h.called /\ ~changed
                  THEN RunAfter(h.command, h.rec.result.action) ELSE NoRun
        /\ blocked' = BlockedAfter(h.rec)
    /\ error' = NoError
    /\ UNCHANGED <<config, resolved, files, parsed,
                   procs, completed, watch, expected>>

(* the monitor command of the command line: each option is set when given *)
MonitorCmd(enabled, action, notice_threshold, block_threshold) ==
    /\ config' = [config EXCEPT
           !.enabled = IF enabled # << >> THEN enabled[1] ELSE @,
           !.blocking_enabled = IF action # << >> THEN action[1] = "block" ELSE @,
           !.notice_threshold = IF notice_threshold # << >> THEN notice_threshold[1] ELSE @,
           !.blocking_threshold = IF block_threshold # << >> THEN block_threshold[1] ELSE @]
    /\ blocked' = IF config'.blocking_enabled = config.blocking_enabled
                     /\ config'.notice_threshold = config.notice_threshold
                     /\ config'.blocking_threshold = config.blocking_threshold
                  THEN blocked ELSE {}
    /\ call' = NoCall
    /\ result' = None
    /\ exit_code' = NoExit
    /\ stdout' = << >>
    /\ run' = NoRun
    /\ error' = NoError
    /\ UNCHANGED <<aliases, stats, now, resolved, files, parsed,
                   procs, completed, watch, expected>>

(* the collect command: the Alias Store is rewritten from the shell files *)
Collect(learned) ==
    /\ aliases' = learned
    /\ call' = NoCall
    /\ result' = None
    /\ exit_code' = NoExit
    /\ stdout' = << >>
    /\ run' = NoRun
    /\ error' = NoError
    /\ UNCHANGED <<stats, config, now, blocked, resolved, files, parsed,
                   procs, completed, watch, expected>>

Next ==
    \/ \E command \in Commands : RecordCommand(command)
    \/ \E o \in MonitorOptions :
           MonitorCmd(o.enabled, o.action, o.notice_threshold, o.block_threshold)
    \/ \E learned \in Stores : Collect(learned)

Spec == Init /\ [][Next]_vars

(* the shell hook on its own: every prompt runs one hook process *)
NextHook ==
    \E args \in Argvs, changed \in BOOLEAN :
        \E learned \in IF changed THEN Stores ELSE {aliases} :
            HookMain(args, changed, learned)

SpecHook == Init /\ [][NextHook]_vars

(* a direct call of record_command while the files may fail *)
RecordCommandIO(command, fault) ==
    /\ now < MaxFaultCalls
    /\ \E rec \in {record_command_io(command, config, aliases, stats, now + 1, fault)} :
        /\ stats' = rec.stats
        /\ result' = rec.result
        /\ error' = rec.raised
        /\ now' = IF rec.alias # "" THEN now + 1 ELSE now
        /\ call' = [op |-> "record", command |-> command, alias |-> rec.alias,
                    called |-> TRUE]
        /\ blocked' = BlockedAfter(rec)
    /\ run' = NoRun
    /\ exit_code' = NoExit
    /\ stdout' = << >>
    /\ UNCHANGED <<aliases, config, resolved, files, parsed,
                   procs, completed, watch, expected>>

(* one hook process while the files may fail; a watcher that cannot be     *)
(* constructed relearns nothing                                            *)
HookMainIO(args, changed, learned, fault) ==
    /\ now < MaxFaultCalls
    /\ aliases' = IF fault.at = "watcher" THEN aliases
                  ELSE check_and_relearn_if_needed(aliases, changed, learned)
    /\ \E h \in {hook_main_io(args, config, aliases', stats, now + 1, fault)} :
        /\ stats' = h.rec.stats
        /\ result' = h.rec.result
        /\ error' = h.rec.raised
        /\ now' = IF h.rec.alias # "" THEN now + 1 ELSE now
        /\ call' = [op |-> "hook", command |-> h.command, alias |-> h.rec.alias,
                    called |-> h.called]
        /\ exit_code' = h.exit_code
        /\ stdout' = h.stdout
        /\ blocked' = BlockedAfter(h.rec)
    /\ run' = NoRun
    /\ UNCHANGED <<config, resolved, files, parsed,
                   procs, completed, watch, expected>>

(* the store cannot outgrow the bound *)
Fits(als, name) == HasAlias(als, name) \/ Len(als) < MaxAliases

(* AliasCollector.find_alias_for_command of lazysloth *)
FindAlias(command) ==
    /\ resolved' = find_alias_for_command(command, aliases)
    /\ call' = [op |-> "resolve", command |-> command, alias |-> resolved'.name,
                called |-> TRUE]
    /\ exit_code' = NoExit
    /\ UNCHANGED <<aliases, stats, config, now, result, stdout, run, blocked, error, files, parsed,
                   procs, completed, watch, expected>>

(* variant: only the name is required *)
add_rejects_name_only(alias_name, command) == alias_name = ""

(* line 103: not alias_name or not command *)
add_rejects(alias_name, command) == alias_name = "" \/ command = << >>

(* sloth add alias_name command; confirm answers the overwrite question *)
Add(alias_name, command, confirm) ==
    /\ Fits(aliases, alias_name)
    /\ IF add_rejects(alias_name, command)
       THEN aliases' = aliases /\ files' = files /\ exit_code' = 1
       ELSE IF HasAlias(aliases, alias_name)
               /\ (AliasData(aliases, alias_name).command = command \/ ~confirm)
            THEN aliases' = aliases /\ files' = files /\ exit_code' = 0
       ELSE /\ aliases' = save_aliases_data(
                              dict_set(aliases, AliasEntry(alias_name, command,
                                                           "user_defined", RcFile)))
            /\ files' = rc_add_alias(files, alias_name, command)
            /\ exit_code' = 0
    /\ call' = [op |-> "add", command |-> command, alias |-> alias_name, called |-> FALSE]
    /\ resolved' = NoAlias
    /\ UNCHANGED <<stats, config, now, result, stdout, run, blocked, error, parsed,
                   procs, completed, watch, expected>>

NextResolve ==
    \/ \E command \in Queries : FindAlias(command)
    \/ \E alias_name \in AddNames, command \in AddCommands, confirm \in BOOLEAN :
           Add(alias_name, command, confirm)

(* the resolver starts from a store on disk and the default configuration *)
InitResolve ==
    /\ aliases \in SlothStores
    /\ stats = << >>
    /\ config = DefaultConfig
    /\ now = 0
    /\ call = NoCall
    /\ result = None
    /\ exit_code = NoExit
    /\ stdout = << >>
    /\ run = NoRun
    /\ blocked = {}
    /\ error = NoError
    /\ resolved = NoAlias
    /\ files = NoFiles
    /\ parsed = << >>
    /\ procs = NoProcs
    /\ completed = << >>
    /\ watch = NoWatch
    /\ expected = << >>

SpecResolve == InitResolve /\ [][NextResolve]_vars

(* sequential use: commands are recorded and resolved one after the other *)
FrameCommands == { GitStatus, W("git"), W("gs"), W("ls") }

NextFrame ==
    \/ \E command \in FrameCommands : RecordCommand(command)
    \/ \E command \in FrameCommands : FindAlias(command)

SpecFrame == Init /\ [][NextFrame]_vars

(* CommandMonitor._generate_alias_suggestion called on its own *)
GenerateAliasSuggestion(original_command, alias_data) ==
    /\ result' = MonitorResult("suggestion",
                               generate_alias_suggestion(original_command, alias_data.name,
                                                         alias_data, aliases),
                               original_command)
    /\ resolved' = alias_data
    /\ call' = [op |-> "suggest", command |-> original_command,
                alias |-> alias_data.name, called |-> FALSE]
    /\ UNCHANGED <<aliases, stats, config, now, exit_code, stdout, run, blocked, error,
                   files, parsed,
                   procs, completed, watch, expected>>

NextSuggest ==
    \E original_command \in Commands, alias_data \in SuggestedAliases :
        GenerateAliasSuggestion(original_command, alias_data)

InitSuggest ==
    /\ aliases \in Stores
    /\ stats = << >>
    /\ config = DefaultConfig
    /\ now = 0
    /\ call = NoCall
    /\ result = None
    /\ exit_code = NoExit
    /\ stdout = << >>
    /\ run = NoRun
    /\ blocked = {}
    /\ error = NoError
    /\ resolved = NoAlias
    /\ files = NoFiles
    /\ parsed = << >>
    /\ procs = NoProcs
    /\ completed = << >>
    /\ watch = NoWatch
    /\ expected = << >>

SpecSuggest == InitSuggest /\ [][NextSuggest]_vars

(* the user adds a line at the end of a shell file *)
AppendLine(config_file, line) ==
    /\ config_file \in DOMAIN files
    /\ Len(files[config_file]) < MaxLines
    /\ files' = [files EXCEPT ![config_file] = Append(@, line)]
    /\ call' = NoCall
    /\ UNCHANGED <<aliases, stats, config, now, result, exit_code, stdout, run, blocked,
                   error, resolved, parsed,
                   procs, completed, watch, expected>>

(* AliasCollector._parse_bash_zsh_aliases on one file *)
ParseFile(config_file, shell) ==
    /\ config_file \in DOMAIN files
    /\ parsed' = parse_bash_zsh_aliases(files, config_file, shell)
    /\ call' = [op |-> "parse", command |-> << >>, alias |-> config_file, called |-> FALSE]
    /\ UNCHANGED <<aliases, stats, config, now, result, exit_code, stdout, run, blocked,
                   error, resolved, files,
                   procs, completed, watch, expected>>

(* the home directory holds fewer lines than the bound *)
RECURSIVE TotalLines(_, _)
TotalLines(fs, names) ==
    IF names = {} THEN 0
    ELSE LET f == CHOOSE g \in names : TRUE
         IN Len(fs[f]) + TotalLines(fs, names \ {f})

(* the user writes a line at the end of a shell file, which is created     *)
(* when it does not exist                                                  *)
EditFile(config_file, line) ==
    /\ config_file \in DOMAIN files => Len(files[config_file]) < MaxLines
    /\ TotalLines(files, DOMAIN files \ {RcFile}) < MaxHomeLines
    /\ files' = write_file(files, config_file,
                           IF config_file \in DOMAIN files
                           THEN Append(files[config_file], line) ELSE <<line>>)
    /\ call' = [op |-> "edit", command |-> << >>, alias |-> config_file, called |-> FALSE]
    /\ exit_code' = NoExit
    /\ UNCHANGED <<aliases, stats, config, now, result, stdout, run, blocked, error,
                   resolved, parsed,
                   procs, completed, watch, expected>>

(* AliasCollector.collect_all *)
CollectAll ==
    /\ aliases' = collect_all(files)
    /\ call' = [op |-> "collect", command |-> << >>, alias |-> "", called |-> FALSE]
    /\ exit_code' = NoExit
    /\ UNCHANGED <<stats, config, now, result, stdout, run, blocked, error, resolved,
                   files, parsed,
                   procs, completed, watch, expected>>

(* AutoLearner.learn_from_monitored_files(shell); "" stands for no shell *)
Learn(shell) ==
    /\ aliases' = learn_from_monitored_files(aliases, files, shell)
    /\ call' = [op |-> "learn", command |-> << >>, alias |-> shell, called |-> FALSE]
    /\ exit_code' = NoExit
    /\ UNCHANGED <<stats, config, now, result, stdout, run, blocked, error, resolved,
                   files, parsed,
                   procs, completed, watch, expected>>

NextLearn ==
    \/ \E config_file \in HomeFiles, line \in HomeLines : EditFile(config_file, line)
    \/ CollectAll
    \/ \E shell \in Shells \cup {""} : Learn(shell)
    \/ \E alias_name \in LearnNames, command \in LearnCommands, confirm \in BOOLEAN :
           Add(alias_name, command, confirm)

(* a new home directory: no shell file, an empty Alias Store *)
InitLearn ==
    /\ aliases = << >>
    /\ stats = << >>
    /\ config = DefaultConfig
    /\ now = 0
    /\ call = NoCall
    /\ result = None
    /\ exit_code = NoExit
    /\ stdout = << >>
    /\ run = NoRun
    /\ blocked = {}
    /\ error = NoError
    /\ resolved = NoAlias
    /\ files = NoFiles
    /\ parsed = << >>
    /\ procs = NoProcs
    /\ completed = << >>
    /\ watch = NoWatch
    /\ expected = << >>

SpecLearn == InitLearn /\ [][NextLearn]_vars

NextParse ==
    \/ \E line \in Lines : AppendLine(".bashrc", line)
    \/ \E shell \in Shells : ParseFile(".bashrc", shell)

(* an empty ~/.bashrc, nothing learned yet *)
InitParse ==
    /\ aliases = << >>
    /\ stats = << >>
    /\ config = DefaultConfig
    /\ now = 0
    /\ call = NoCall
    /\ result = None
    /\ exit_code = NoExit
    /\ stdout = << >>
    /\ run = NoRun
    /\ blocked = {}
    /\ error = NoError
    /\ resolved = NoAlias
    /\ files = [f \in {".bashrc"} |-> << >>]
    /\ parsed = << >>
    /\ procs = NoProcs
    /\ completed = << >>
    /\ watch = NoWatch
    /\ expected = << >>

SpecParse == InitParse /\ [][NextParse]_vars

NextFault ==
    \/ \E command \in Commands, fault \in RecordFaults : RecordCommandIO(command, fault)
    \/ \E args \in Argvs, fault \in HookFaults, changed \in BOOLEAN :
           \E learned \in IF changed THEN RelearnedStores ELSE {aliases} :
               HookMainIO(args, changed, learned, fault)

InitFault == Init /\ config \in FaultConfigs

SpecFault == InitFault /\ [][NextFault]_vars

----------------------------------------------------------------------------
(* Installer: the integration block in the configuration file of a shell.  *)
(* The markers are written as whole lines, and are looked for as text.     *)

Marker == <<"#", SP, "LazySloth", SP, "integration">>

EndMarker == <<"#", SP, "End", SP, "LazySloth", SP, "integration">>

(* p in s *)
contains(s, p) ==
    \E i \in 1..(Len(s) - Len(p) + 1) : SubSeq(s, i, i + Len(p) - 1) = p

(* get_shell_config_files *)
get_shell_config_files(shell) ==
    IF shell = "bash" THEN <<".bash_profile", ".bash_profile", ".profile">>
    ELSE IF shell = "zsh" THEN <<".zshrc", ".zsh_profile", ".profile">>
    ELSE << >>

(* find_existing_config: the first file that exists, else the first one *)
find_existing_config(fs, shell) ==
    LET config_files == get_shell_config_files(shell)
    IN IF \E i \in 1..Len(config_files) : config_files[i] \in DOMAIN fs
       THEN config_files[CHOOSE i \in 1..Len(config_files) :
                            /\ config_files[i] \in DOMAIN fs
                            /\ \A k \in 1..(i - 1) : config_files[k] \notin DOMAIN fs]
       ELSE config_files[1]

(* _generate_integration_code: an empty line, the source line of .slothrc, *)
(* the hook function of the shell                                          *)
integration_code(shell) ==
    << << >>,
       <<"#", SP, "Source", SP, "LazySloth", SP, "user", SP, "aliases">>,
       <<"source", SP, RcFile>>,
       << >>,
       <<"#", SP, "LazySloth", SP, "command", SP, "hook">>,
       <<"lazysloth.monitors.hook", SP, shell>> >>

(* lines 105-108: two newlines, the marker, the code, a newline, the end   *)
integration_block(shell) ==
    << << >>, << >>, Marker >> \o integration_code(shell) \o << << >>, EndMarker >>

(* the \s* that ends the pattern: the blank lines after the block and the  *)
(* indentation of the line after them                                      *)
RECURSIVE skip_space(_)
skip_space(lines) ==
    IF lines = << >> THEN << >>
    ELSE IF split(Head(lines)) = << >> THEN skip_space(Tail(lines))
    ELSE <<lstrip(Head(lines))>> \o Tail(lines)

(* variant: no block is removed *)
remove_blocks_none(lines) == lines

(* re.sub(pattern, "", content, flags=re.DOTALL): every text from a marker *)
(* to the next end marker is removed                                       *)
RECURSIVE remove_blocks(_)
remove_blocks(lines) ==
    IF lines = << >> THEN << >>
    ELSE IF /\ contains(Head(lines), Marker)
            /\ \E j \in 2..Len(lines) : contains(lines[j], EndMarker)
    THEN LET j == CHOOSE j \in 2..Len(lines) :
                      /\ contains(lines[j], EndMarker)
                      /\ \A k \in 2..(j - 1) : ~contains(lines[k], EndMarker)
         IN remove_blocks(skip_space(SubSeq(lines, j + 1, Len(lines))))
    ELSE <<Head(lines)>> \o remove_blocks(Tail(lines))

(* re.sub(r"\n{3,}", "\n\n", ...): newlines is the length of the run of    *)
(* newlines that ends the text kept so far                                 *)
RECURSIVE collapse_newlines(_, _)
collapse_newlines(lines, newlines) ==
    IF lines = << >> THEN << >>
    ELSE IF Head(lines) = << >>
    THEN IF newlines >= 2 THEN collapse_newlines(Tail(lines), newlines)
         ELSE << << >> >> \o collapse_newlines(Tail(lines), newlines + 1)
    ELSE <<Head(lines)>> \o collapse_newlines(Tail(lines), 1)

(* Installer.uninstall on the files; cleaned tells that                    *)
(* _clean_lazysloth_data was reached                                       *)
uninstall(fs, shell) ==
    LET config_file == find_existing_config(fs, shell)
    IN IF config_file \notin DOMAIN fs
       THEN [files |-> fs, cleaned |-> FALSE, raised |-> NoError]
       ELSE [files |-> write_file(fs, config_file,
                                  collapse_newlines(remove_blocks(fs[config_file]), 0)),
             cleaned |-> TRUE, raised |-> NoError]

(* SlothRC.ensure_exists *)
rc_ensure_exists(fs) == IF RcFile \in DOMAIN fs THEN fs ELSE rc_write_aliases(fs, << >>)

(* Installer.install *)
install(fs, shell, force) ==
    LET config_file == find_existing_config(fs, shell)
        touched == IF config_file \in DOMAIN fs THEN fs ELSE write_file(fs, config_file, << >>)
        already_installed ==
            \E i \in 1..Len(touched[config_file]) : contains(touched[config_file][i], Marker)
        removed == IF already_installed THEN uninstall(touched, shell).files ELSE touched
        appended == write_file(removed, config_file,
                               removed[config_file] \o integration_block(shell))
    IN IF already_installed /\ ~force
       THEN [files |-> touched, cleaned |-> FALSE, raised |-> "ValueError"]
       ELSE [files |-> rc_ensure_exists(appended),
             cleaned |-> already_installed \/ force, raised |-> NoError]

----------------------------------------------------------------------------
(* SlothRC used on its own; expected is the map the calls describe: the    *)
(* names added and not removed since, each with the command last given     *)

RcAddAlias(alias_name, command) ==
    /\ now < MaxRcCalls
    /\ now' = now + 1
    /\ files' = rc_add_alias(files, alias_name, command)
    /\ expected' = [n \in (DOMAIN expected) \cup {alias_name} |->
                       IF n = alias_name THEN command ELSE expected[n]]
    /\ call' = [op |-> "rc_add", command |-> command, alias |-> alias_name,
                called |-> TRUE]
    /\ UNCHANGED <<aliases, stats, config, result, exit_code, stdout, run, blocked,
                   error, resolved, parsed, procs, completed, watch>>

RcRemoveAlias(alias_name) ==
    /\ now < MaxRcCalls
    /\ now' = now + 1
    /\ \E done \in {rc_remove_alias(files, alias_name)} :
           /\ files' = done.files
           /\ call' = [op |-> "rc_remove", command |-> << >>, alias |-> alias_name,
                       called |-> done.removed]
    /\ expected' = [n \in (DOMAIN expected) \ {alias_name} |-> expected[n]]
    /\ UNCHANGED <<aliases, stats, config, result, exit_code, stdout, run, blocked,
                   error, resolved, parsed, procs, completed, watch>>

NextRc ==
    \/ \E alias_name \in RcNames, command \in RcCommands : RcAddAlias(alias_name, command)
    \/ \E alias_name \in RcNames : RcRemoveAlias(alias_name)

(* no ~/.slothrc yet *)
SpecRc == InitLearn /\ [][NextRc]_vars

----------------------------------------------------------------------------
(* sloth install and sloth uninstall *)

(* _clean_lazysloth_data: the Alias Store, the Stats Store and             *)
(* .file_mtimes are deleted                                                *)
CleanedData(done) ==
    /\ aliases' = IF done.cleaned THEN << >> ELSE aliases
    /\ stats' = IF done.cleaned THEN << >> ELSE stats
    /\ watch' = IF done.cleaned THEN [watch EXCEPT !.recorded = << >>] ELSE watch

Install(shell, force) ==
    /\ \E done \in {install(files, shell, force)} :
           /\ files' = done.files
           /\ error' = done.raised
           /\ CleanedData(done)
    /\ call' = [op |-> "install", command |-> << >>, alias |-> shell, called |-> force]
    /\ UNCHANGED <<config, now, result, exit_code, stdout, run, blocked, resolved,
                   parsed, procs, completed, expected>>

Uninstall(shell) ==
    /\ \E done \in {uninstall(files, shell)} :
           /\ files' = done.files
           /\ error' = done.raised
           /\ CleanedData(done)
    /\ call' = [op |-> "uninstall", command |-> << >>, alias |-> shell, called |-> FALSE]
    /\ UNCHANGED <<config, now, result, exit_code, stdout, run, blocked, resolved,
                   parsed, procs, completed, expected>>

(* the lines of the files that no installation wrote *)
RECURSIVE OwnLines(_, _)
OwnLines(fs, names) ==
    IF names = {} THEN 0
    ELSE LET f == CHOOSE g \in names : TRUE
         IN Len(SelectSeq(fs[f], LAMBDA line :
                              \E own \in InstallLines : lstrip(line) = lstrip(own)))
            + OwnLines(fs, names \ {f})

(* the user writes a line at the end of a configuration file *)
WriteLine(config_file, line) ==
    /\ OwnLines(files, DOMAIN files) < MaxOwnLines
    /\ files' = write_file(files, config_file,
                           IF config_file \in DOMAIN files
                           THEN Append(files[config_file], line) ELSE <<line>>)
    /\ call' = [op |-> "edit", command |-> << >>, alias |-> config_file, called |-> FALSE]
    /\ error' = NoError
    /\ UNCHANGED <<aliases, stats, config, now, result, exit_code, stdout, run, blocked,
                   resolved, parsed, procs, completed, watch, expected>>

NextInstall ==
    \/ \E shell \in Shells, force \in BOOLEAN : Install(shell, force)
    \/ \E shell \in Shells : Uninstall(shell)
    \/ \E config_file \in InstallFiles, line \in InstallLines : WriteLine(config_file, line)

(* a home directory without configuration files, with learned aliases *)
InitInstall ==
    /\ aliases = StoreGs
    /\ stats = << >>
    /\ config = DefaultConfig
    /\ now = 0
    /\ call = NoCall
    /\ result = None
    /\ exit_code = NoExit
    /\ stdout = << >>
    /\ run = NoRun
    /\ blocked = {}
    /\ error = NoError
    /\ resolved = NoAlias
    /\ files = NoFiles
    /\ parsed = << >>
    /\ procs = NoProcs
    /\ completed = << >>
    /\ watch = NoWatch
    /\ expected = << >>

SpecInstall == InitInstall /\ [][NextInstall]_vars

----------------------------------------------------------------------------
(* The monitored files change and the hook checks them *)

(* the file f without its modification time *)
without_file(fn, f) == [g \in (DOMAIN fn) \ {f} |-> fn[g]]

(* the user saves a monitored file with one more line *)
SaveLine(config_file, line) ==
    /\ now < MaxEdits
    /\ config_file \in DOMAIN files => Len(files[config_file]) < MaxLines
    /\ TotalLines(files, DOMAIN files) < MaxHomeLines
    /\ files' = write_file(files, config_file,
                           IF config_file \in DOMAIN files
                           THEN Append(files[config_file], line) ELSE <<line>>)
    /\ now' = now + 1
    /\ watch' = [watch EXCEPT !.mtime = write_file(watch.mtime, config_file, now + 1)]
    /\ call' = [op |-> "edit", command |-> << >>, alias |-> config_file, called |-> FALSE]
    /\ error' = NoError
    /\ UNCHANGED <<aliases, stats, config, result, exit_code, stdout, run, blocked,
                   resolved, parsed, procs, completed, expected>>

(* the user saves a monitored file without its last line *)
CutLine(config_file) ==
    /\ now < MaxEdits
    /\ config_file \in DOMAIN files
    /\ files[config_file] # << >>
    /\ files' = [files EXCEPT ![config_file] = SubSeq(@, 1, Len(@) - 1)]
    /\ now' = now + 1
    /\ watch' = [watch EXCEPT !.mtime = write_file(watch.mtime, config_file, now + 1)]
    /\ call' = [op |-> "edit", command |-> << >>, alias |-> config_file, called |-> FALSE]
    /\ error' = NoError
    /\ UNCHANGED <<aliases, stats, config, result, exit_code, stdout, run, blocked,
                   resolved, parsed, procs, completed, expected>>

(* the user deletes a monitored file *)
DeleteFile(config_file) ==
    /\ now < MaxEdits
    /\ config_file \in DOMAIN files
    /\ files' = without_file(files, config_file)
    /\ now' = now + 1
    /\ watch' = [watch EXCEPT !.mtime = without_file(watch.mtime, config_file)]
    /\ call' = [op |-> "delete", command |-> << >>, alias |-> config_file,
                called |-> FALSE]
    /\ error' = NoError
    /\ UNCHANGED <<aliases, stats, config, result, exit_code, stdout, run, blocked,
                   resolved, parsed, procs, completed, expected>>

(* FileWatcher.check_and_relearn_if_needed, as the hook calls it *)
Check(raised) ==
    /\ \E order \in Orders(shells_to_relearn(
                         get_changed_files(watch, files, all_monitored_files))) :
        \E done \in {check_and_relearn_if_needed_io(aliases, files, watch, order, raised)} :
            /\ aliases' = done.aliases
            /\ watch' = done.watch
            /\ error' = IF raised /\ order # << >> THEN "OSError" ELSE NoError
    /\ call' = [op |-> "check", command |-> << >>, alias |-> "", called |-> FALSE]
    /\ UNCHANGED <<stats, config, now, result, exit_code, stdout, run, blocked,
                   resolved, files, parsed, procs, completed, expected>>

NextWatch ==
    \/ \E config_file \in WatchFiles, line \in WatchLines : SaveLine(config_file, line)
    \/ \E config_file \in WatchFiles : CutLine(config_file)
    \/ \E config_file \in WatchFiles : DeleteFile(config_file)
    \/ \E raised \in BOOLEAN : Check(raised)

SpecWatch == InitLearn /\ [][NextWatch]_vars

----------------------------------------------------------------------------
(* Two shell sessions: each prompt runs a hook process, and nothing orders  *)
(* the file operations of two processes.  record_command reads stats.yaml  *)
(* at line 65 and writes it at line 81; these are the two steps of a       *)
(* process.                                                                *)

Sessions == {1, 2}

(* a session at its prompt, after calls commands *)
AtPrompt(calls) ==
    [pc |-> "prompt", command |-> << >>, alias |-> NoAlias, stats |-> << >>,
     calls |-> calls]

(* the commands typed in the two sessions *)
RaceCommands == { GitStatus, W("git"), W("ls") }

(* alias name -> calls counted, one more for n *)
Counted(done, n) ==
    [m \in (DOMAIN done) \cup {n} |->
        IF m = n THEN (IF n \in DOMAIN done THEN done[n] ELSE 0) + 1 ELSE done[m]]

(* lines 43-65 of record_command: the checks, the resolver and              *)
(* get_stats_data; a call that is not tracked returns here                 *)
RecordLoad(p, command) ==
    /\ procs[p].pc = "prompt"
    /\ procs[p].calls < MaxRaceCalls
    /\ \E rec \in {record_command(command, config, aliases, stats, now + 1)} :
         IF rec.alias = ""
         THEN /\ procs' = [procs EXCEPT ![p] = AtPrompt(procs[p].calls + 1)]
              /\ result' = None
              /\ call' = [op |-> "record", command |-> command, alias |-> "",
                          called |-> TRUE]
         ELSE /\ procs' = [procs EXCEPT ![p] =
                              [pc |-> "loaded", command |-> command,
                               alias |-> FP_find_alias_for_command(command, aliases),
                               stats |-> stats, calls |-> procs[p].calls]]
              /\ result' = result
              /\ call' = [op |-> "load", command |-> command, alias |-> rec.alias,
                          called |-> FALSE]
    /\ UNCHANGED <<aliases, stats, config, now, exit_code, stdout, run, blocked, error,
                   resolved, files, parsed, completed, watch, expected>>

(* lines 67-84: the entry is updated in the mapping that was read, the     *)
(* whole mapping is written, and the signal is returned                    *)
RecordStore(p) ==
    /\ procs[p].pc = "loaded"
    /\ \E new_stats \in {update_stats(procs[p].stats, procs[p].alias, now + 1)} :
        /\ stats' = save_stats_data(new_stats)
        /\ result' = check_for_action(procs[p].command, new_stats[procs[p].alias.name],
                                      procs[p].alias, config, aliases)
    /\ now' = now + 1
    /\ completed' = Counted(completed, procs[p].alias.name)
    /\ procs' = [procs EXCEPT ![p] = AtPrompt(procs[p].calls + 1)]
    /\ call' = [op |-> "record", command |-> procs[p].command,
                alias |-> procs[p].alias.name, called |-> TRUE]
    /\ UNCHANGED <<aliases, config, exit_code, stdout, run, blocked, error,
                   resolved, files, parsed, watch, expected>>

NextRace ==
    \/ \E p \in Sessions, command \in RaceCommands : RecordLoad(p, command)
    \/ \E p \in Sessions : RecordStore(p)

(* g and gs are known, nothing is counted, both sessions are at the prompt *)
InitRace ==
    /\ aliases \in RaceStores
    /\ stats = << >>
    /\ config = RaceConfig
    /\ now = 0
    /\ call = NoCall
    /\ result = None
    /\ exit_code = NoExit
    /\ stdout = << >>
    /\ run = NoRun
    /\ blocked = {}
    /\ error = NoError
    /\ resolved = NoAlias
    /\ files = NoFiles
    /\ parsed = << >>
    /\ procs = [p \in Sessions |-> AtPrompt(0)]
    /\ completed = << >>
    /\ watch = NoWatch
    /\ expected = << >>

SpecRace == InitRace /\ [][NextRace]_vars

----------------------------------------------------------------------------
(* Properties *)

(* the conditions under which record_command counts a call *)
TrackedIn(command, cfg, als) ==
    /\ cfg.enabled
    /\ ~(split(command) # << >> /\ <<split(command)[1]>> \in cfg.ignored_commands)
    /\ ~(split(command) = << >> /\ command \in cfg.ignored_commands)
    /\ ~is_using_optimal_alias(command, als)
    /\ FP_find_alias_for_command(command, als) # NoAlias

ResolvedName(command, als) == FP_find_alias_for_command(command, als).name

CountOf(st, n) == IF n \in DOMAIN st THEN st[n].count ELSE 0

InBlockZone(cfg, count) == cfg.blocking_enabled /\ count >= cfg.blocking_threshold

Zone(cfg, count) ==
    IF InBlockZone(cfg, count) THEN "block"
    ELSE IF count >= cfg.notice_threshold THEN "notice"
    ELSE "none"

P6Config ==
    /\ config.enabled
    /\ config.notice_threshold = 1
    /\ config.blocking_threshold = 3
    /\ config.blocking_enabled
    /\ config.ignored_commands = {}

P6Outcomes == <<"notice", "notice", "block">>

(* C1: with notice_threshold=1, blocking_threshold=3, blocking enabled, the *)
(* store gs -> 'git status' and empty stats, the first three successive     *)
(* record('git status') calls return Notice, Notice, Block, and the count   *)
(* of gs after the third call is 3.                                         *)
C1_ThresholdEscalation ==
    (run.live /\ run.outcomes # << >> /\ run.command = GitStatus
     /\ aliases = StoreGs /\ P6Config)
    => /\ \A k \in 1..Len(run.outcomes) : k <= 3 => run.outcomes[k] = P6Outcomes[k]
       /\ "gs" \in DOMAIN stats
       /\ stats["gs"].count = Len(run.outcomes)

C1_Witness ==
    /\ run.live /\ run.command = GitStatus /\ Len(run.outcomes) = 3
    /\ aliases = StoreGs /\ P6Config
    /\ result.action = "block"
    /\ stats["gs"].count = 3

(* C2: every tracked record call raises the persisted count of the alias    *)
(* it resolves to by exactly 1 (the entry starts at 1 on first occurrence), *)
(* and the signal of that call is decided on the count after the increment. *)
C2_TrackedCallCountsOnce ==
    [][ (call'.called /\ TrackedIn(call'.command, config', aliases'))
        => LET a == ResolvedName(call'.command, aliases') IN
           /\ a \in DOMAIN stats'
           /\ stats'[a].count = CountOf(stats, a) + 1
           /\ result'.action = Zone(config', CountOf(stats, a) + 1) ]_vars

C2_Witness ==
    /\ call.called /\ TrackedIn(call.command, config, aliases)
    /\ stats[ResolvedName(call.command, aliases)].count = 1
    /\ config.notice_threshold = 2
    /\ result = None
    /\ Cardinality(DOMAIN stats) = 2

(* C3: over any sequence of record calls, with the thresholds, the flags    *)
(* and the Alias Store changing in between, no persisted count decreases    *)
(* and no stats entry disappears.                                           *)
C3_CountsNeverDecrease ==
    [][ \A n \in DOMAIN stats :
            n \in DOMAIN stats' /\ stats'[n].count >= stats[n].count ]_vars

C3_Witness ==
    /\ call.called /\ call.alias # ""
    /\ \E n \in DOMAIN stats : n # call.alias /\ ~HasAlias(aliases, n)
    /\ \E n \in DOMAIN stats : stats[n].count >= 2

(* C4: a tracked record call returns Block exactly when blocking is enabled *)
(* and the count after the increment has reached blocking_threshold;        *)
(* otherwise Notice exactly when that count has reached notice_threshold    *)
(* (also at or above blocking_threshold when blocking is disabled);         *)
(* otherwise nothing.  The result is a single signal.                       *)
C4_SignalDecision ==
    (call.called /\ TrackedIn(call.command, config, aliases))
    => LET count == CountOf(stats, ResolvedName(call.command, aliases)) IN
       /\ result.action \in {"none", "notice", "block"}
       /\ (result.action = "block") <=> InBlockZone(config, count)
       /\ (result.action = "notice")
              <=> (~InBlockZone(config, count) /\ count >= config.notice_threshold)
       /\ (result = None)
              <=> (~InBlockZone(config, count) /\ count < config.notice_threshold)
       /\ result # None => result.suggested # << >>

C4_Witness ==
    /\ call.called /\ TrackedIn(call.command, config, aliases)
    /\ ~config.blocking_enabled
    /\ CountOf(stats, ResolvedName(call.command, aliases)) > config.blocking_threshold
    /\ result.action = "notice"

(* C5: once a record call resolving to alias A has returned Block, every    *)
(* later tracked call resolving to A returns Block, as long as the          *)
(* thresholds and blocking_enabled are unchanged.                           *)
C5_BlockIsSticky ==
    [][ (call'.called /\ TrackedIn(call'.command, config', aliases')
         /\ ResolvedName(call'.command, aliases') \in blocked)
        => result'.action = "block" ]_vars

C5_Witness ==
    /\ call.called /\ call.alias \in blocked
    /\ result.action = "block"
    /\ stats[call.alias].count > config.blocking_threshold

(* C6: with monitoring.enabled false, record returns nothing for every      *)
(* command and leaves the Stats Store exactly as it was.                    *)
C6_DisabledIsNoOp ==
    [][ (call'.called /\ ~config'.enabled)
        => (result' = None /\ stats' = stats) ]_vars

C6_Witness ==
    /\ call.called /\ ~config.enabled
    /\ config.ignored_commands = {}
    /\ ~is_using_optimal_alias(call.command, aliases)
    /\ FP_matches(FP_expand_aliases_in_command(call.command, aliases, MaxDepth), aliases) # << >>
    /\ result = None
    /\ stats # << >>

(* C7: when the leading token of the typed command is in ignored_commands,  *)
(* record returns nothing and creates or modifies no stats entry, even if   *)
(* the command resolves to an alias.                                        *)
C7_IgnoredBypassesTracking ==
    [][ (call'.called /\ split(call'.command) # << >>
         /\ <<split(call'.command)[1]>> \in config'.ignored_commands)
        => (result' = None /\ stats' = stats) ]_vars

C7_Witness ==
    /\ call.called /\ call.command = GitStatus
    /\ config.enabled /\ W("git") \in config.ignored_commands
    /\ HasAlias(aliases, "gs")
    /\ result = None
    /\ "gs" \notin DOMAIN stats

(* no entry of the store equals the expanded command or is a prefix of it   *)
(* followed by a blank *)
NoMatch(command, als) ==
    LET e == FP_expand_aliases_in_command(command, als, MaxDepth) IN
    \A i \in 1..Len(als) :
        ~(als[i].command = e \/ startswith(e, als[i].command \o <<SP>>))

(* C8: a record call whose command resolves to no alias returns nothing and *)
(* leaves the Stats Store unchanged, and every key that enters the Stats    *)
(* Store is a name of the Alias Store at that moment.                       *)
C8_OnlyAliasesAreTracked ==
    [][ /\ (call'.called /\ NoMatch(call'.command, aliases'))
            => (result' = None /\ stats' = stats)
        /\ \A n \in DOMAIN stats' \ DOMAIN stats : HasAlias(aliases', n) ]_vars

C8_Witness ==
    /\ call.called /\ config.enabled /\ config.ignored_commands = {}
    /\ aliases # << >>
    /\ NoMatch(call.command, aliases)
    /\ result = None
    /\ \E n \in DOMAIN stats : ~HasAlias(aliases, n)

(* C9: record never suggests an alias the user is already using: when the   *)
(* first token of the typed command is an alias that is the most specific   *)
(* match of the expanded command (or has the same command as it), record    *)
(* returns nothing and does not touch the Stats Store; in every other case  *)
(* the alias named in the returned signal differs from the typed token.     *)
C9_NeverSuggestsAliasInUse ==
    (call.called /\ split(call.command) # << >>
     /\ HasAlias(aliases, split(call.command)[1]))
    => LET first == split(call.command)[1]
           e == FP_expand_aliases_in_command(call.command, aliases, MaxDepth)
           m == FP_find_most_specific_alias(e, aliases)
       IN IF m # NoAlias
             /\ (m.name = first \/ m.command = AliasData(aliases, first).command)
          THEN result = None /\ call.alias = ""
          ELSE result # None => result.suggested[2] # first

(* C10: the hook process exits with a non-zero status exactly when record   *)
(* returned Block; on nothing or Notice it exits 0; the message of a        *)
(* Notice and of a Block is printed.                                        *)
C10_HookExitStatus ==
    (call.op = "hook")
    => /\ (exit_code # 0) <=> (result.action = "block")
       /\ result.action \in {"none", "notice"} => exit_code = 0
       /\ result.action \in {"notice", "block"} => stdout = <<result>>
       /\ result = None => stdout = << >>

C10_Witness ==
    /\ call.op = "hook" /\ call.called
    /\ result.action = "block"
    /\ exit_code = 1
    /\ stdout = <<result>>

(* C11: the hook fails open: whenever the file watcher, the monitor or    *)
(* record raises an exception during a hook invocation, the hook exits     *)
(* with status 0; a non-zero exit status is always a Block that record     *)
(* returned, never an internal error.                                      *)
C11_HookFailsOpen ==
    (call.op = "hook")
    => /\ error # NoError => exit_code = 0
       /\ exit_code # 0 => (error = NoError /\ result.action = "block")
       /\ (\E exc \in Exceptions : stdout = <<FailureLine(exc)>>) => exit_code = 0

C11_Witness ==
    /\ call.op = "hook" /\ call.called
    /\ error = "OSError"
    /\ call.alias # "" /\ stats[call.alias].count >= config.blocking_threshold
    /\ config.blocking_enabled
    /\ exit_code = 0
    /\ stdout = <<FailureLine("OSError")>>

(* C12: record never propagates an exception to its caller: a failure      *)
(* while loading the Alias Store for optimal-alias detection, while        *)
(* building the suggestion text or while writing the Stats Store back is   *)
(* absorbed inside record.                                                 *)
C12_RecordNeverRaises ==
    (call.op = "record") => error = NoError

(* the expanded input and the matching entries of the expanded store, as   *)
(* find_alias_for_command sees them                                        *)
ExpandedQuery == expand_aliases_in_command(call.command, aliases, MaxDepth, << >>).command

ExpandedStore == expand_aliases(aliases, MaxDepth)

Matching ==
    { i \in 1..Len(aliases) :
        \/ ExpandedStore[i].command = ExpandedQuery
        \/ startswith(ExpandedQuery, ExpandedStore[i].command \o <<SP>>) }

QCommitHello == <<"g", SP, "commit", SP, "-m", SP, "'hello'">>
QCommit == <<"g", SP, "commit">>
QStatus == <<"g", SP, "status">>

(* C13 as stated: given the store g -> 'git', gc -> 'git commit',           *)
(* gcm -> 'git commit -m', resolving "g commit -m 'hello'" returns gcm,     *)
(* resolving 'g commit' returns gc and resolving 'g status' returns None.   *)
C13_SpecificityOrdering ==
    (call.op = "resolve" /\ aliases = StoreP4)
    => /\ call.command = QCommitHello => resolved.name = "gcm"
       /\ call.command = QCommit => resolved.name = "gc"
       /\ call.command = QStatus => resolved = NoAlias

(* C13 amended: with the same store, resolving "g commit -m 'hello'"       *)
(* returns gcm, resolving 'g commit' returns gc, and resolving 'g status'  *)
(* returns g, whose command 'git' is a prefix of the expanded 'git status' *)
(* followed by a space.                                                    *)
C13_SpecificityOrderingAmended ==
    (call.op = "resolve" /\ aliases = StoreP4)
    => /\ call.command = QCommitHello => resolved.name = "gcm"
       /\ call.command = QCommit => resolved.name = "gc"
       /\ call.command = QStatus => resolved = [name |-> "g", command |-> W("git")]

C13_Witness ==
    /\ call.op = "resolve" /\ aliases = StoreP4
    /\ call.command = QStatus
    /\ resolved.name = "g"

(* C14: for every Alias Store and command, resolve returns None exactly     *)
(* when no entry's expanded command equals the expanded input or is a      *)
(* prefix of it followed by a space; otherwise it returns a matching entry *)
(* such that no other matching entry has a strictly longer expanded        *)
(* command, and among equally long matches the one that comes first in the *)
(* store's iteration order.                                                *)
C14_MostSpecificMatch ==
    (call.op = "resolve")
    => /\ (resolved = NoAlias) <=> (Matching = {})
       /\ Matching # {}
            => \E i \in Matching :
                 /\ resolved = ExpandedStore[i]
                 /\ \A j \in Matching :
                      /\ Len(ExpandedStore[j].command) <= Len(ExpandedStore[i].command)
                      /\ Len(ExpandedStore[j].command) = Len(ExpandedStore[i].command)
                            => i <= j

C14_Witness ==
    /\ call.op = "resolve"
    /\ \E i, j, k \in Matching :
         /\ i < j
         /\ Len(ExpandedStore[i].command) = Len(ExpandedStore[j].command)
         /\ Len(ExpandedStore[k].command) < Len(ExpandedStore[i].command)
         /\ resolved = ExpandedStore[i]

NoDuplicates(seq) == \A i, j \in 1..Len(seq) : seq[i] = seq[j] => i = j

(* C15: alias expansion terminates for every Alias Store and command,       *)
(* including stores with cycles and self-referencing aliases: it performs  *)
(* at most 10 substitutions, never substitutes the same alias name twice   *)
(* within one chain, and returns a string.  This holds of the expansion of *)
(* the command and of the expansion of every command of the store.         *)
C15_ExpansionTerminates ==
    (call.op = "resolve")
    => /\ LET x == expand_aliases_in_command(call.command, aliases, MaxDepth, << >>) IN
          /\ Len(x.expanded_aliases) <= 10
          /\ NoDuplicates(x.expanded_aliases)
          /\ DOMAIN x.command = 1..Len(x.command)
       /\ \A i \in 1..Len(aliases) :
            LET l == expand_alias_loop(aliases[i].command, aliases, <<aliases[i].name>>,
                                       0, MaxDepth) IN
            /\ Len(l.history) - 1 <= 10
            /\ NoDuplicates(l.history)
            /\ DOMAIN l.command = 1..Len(l.command)

(* a cycle a -> 'b', b -> 'a' was resolved from 'a', and the deep chain    *)
(* cannot be in the same store: the two cases have a witness each          *)
C15_Witness ==
    /\ call.op = "resolve" /\ call.command = W("a")
    /\ HasAlias(aliases, "a") /\ AliasData(aliases, "a").command = W("b")
    /\ HasAlias(aliases, "b") /\ AliasData(aliases, "b").command = W("a")
    /\ expand_aliases_in_command(call.command, aliases, MaxDepth, << >>)
         = Expansion(W("a"), <<"a", "b">>)

(* the depth limit stops the expansion of a chain of twelve after ten *)
C15_WitnessDepth ==
    /\ call.op = "resolve" /\ call.command = W("k01") /\ aliases = StoreDeep
    /\ Len(expand_aliases_in_command(call.command, aliases, MaxDepth, << >>)
             .expanded_aliases) = 10
    /\ resolved = NoAlias
    /\ files = NoFiles
    /\ parsed = << >>
    /\ ExpandedStore[1].command = W("k12")

(* C16: resolving the empty command returns None for every Alias Store the  *)
(* system can hold.                                                        *)
C16_EmptyResolvesToNone ==
    (call.op = "resolve" /\ call.command = << >>) => resolved = NoAlias

(* the first atom of a line that is not whitespace, 0 when there is none *)
FirstInk(line) ==
    IF \A i \in 1..Len(line) : line[i] \in {SP, TAB} THEN 0
    ELSE CHOOSE i \in 1..Len(line) :
             /\ line[i] \notin {SP, TAB}
             /\ \A k \in 1..(i - 1) : line[k] \in {SP, TAB}

(* the whitespace-stripped line starts with '#', or does not start with 'alias ' *)
Excluded(line) ==
    LET i == FirstInk(line) IN
    \/ i = 0
    \/ line[i] \in {"#", "#h"}
    \/ line[i] # "alias"
    \/ i = Len(line)
    \/ line[i + 1] # SP

(* the alias definition a line holds somewhere, whatever precedes it *)
HoldsDefinition(line) == re_search(line).matched

RECURSIVE WithoutExcluded(_)
WithoutExcluded(lines) ==
    IF lines = << >> THEN << >>
    ELSE IF Excluded(Head(lines)) THEN WithoutExcluded(Tail(lines))
    ELSE <<Head(lines)>> \o WithoutExcluded(Tail(lines))

(* C19: a line whose whitespace-stripped form starts with '#' or does not start
   with the literal 'alias ' never produces an entry: the parse of a file is
   the parse of the file without these lines, and a file of such lines alone
   parses to nothing, even when 'alias name=value' occurs later in the line *)
C19_ExcludedLinesProduceNothing ==
    call.op = "parse" =>
        /\ parsed = parse_lines(WithoutExcluded(files[call.alias]), << >>,
                                call.alias, "bash")
           \/ parsed = parse_lines(WithoutExcluded(files[call.alias]), << >>,
                                   call.alias, "zsh")
        /\ (\A i \in 1..Len(files[call.alias]) : Excluded(files[call.alias][i]))
               => parsed = << >>
        /\ \A n \in 1..Len(parsed) :
               \E i \in 1..Len(files[call.alias]) :
                   /\ ~Excluded(files[call.alias][i])
                   /\ re_search(files[call.alias][i]).name = parsed[n].name
                   /\ re_search(files[call.alias][i]).command = parsed[n].command

(* ~/.bashrc holds alias x='a' and then echo hi; alias x='c': x stays 'a' *)
C19_Witness ==
    /\ call.op = "parse"
    /\ files[".bashrc"] = <<LineXa, LineSemicolon>>
    /\ HoldsDefinition(LineSemicolon) /\ Excluded(LineSemicolon)
    /\ Len(parsed) = 1 /\ parsed[1].name = "x" /\ parsed[1].command = W("a")

(* ~/.bashrc holds a comment that names an alias and nothing else *)
C19_WitnessComment ==
    /\ call.op = "parse"
    /\ files[".bashrc"] = <<LineCommentIndent, LineAnd>>
    /\ HoldsDefinition(LineCommentIndent) /\ HoldsDefinition(LineAnd)
    /\ parsed = << >>

(* the chained expansion of the typed command of the last call *)
ExpansionOfTyped == FP_expand_aliases_in_command(call.command, aliases, MaxDepth)

(* the text between the quotes of the suggestion *)
Unquoted(text) == SubSeq(text, 2, Len(text) - 1)

(* C17: the suggestion text for an alias (name n, command c) and a typed
   command t is n alone when the chained expansion of t equals c, n followed
   by the remaining argument tail when the expansion of t starts with c and a
   space ('git status --short' with gs -> 'git status' gives 'gs --short'),
   and n alone in every other case; the text is written in single quotes *)
C17_SuggestionText ==
    call.op = "suggest" =>
        LET n == resolved.name
            c == resolved.command
            x == ExpansionOfTyped
            text == result.suggested
        IN /\ Len(text) >= 3 /\ text[1] = "'" /\ text[Len(text)] = "'"
           /\ x = c => Unquoted(text) = <<n>>
           /\ (x # c /\ Len(x) > Len(c) /\ SubSeq(x, 1, Len(c)) = c /\ x[Len(c) + 1] = " ")
                  => Unquoted(text) = <<n, " ">> \o SubSeq(x, Len(c) + 2, Len(x))
           /\ (x # c /\ ~(Len(x) > Len(c) /\ SubSeq(x, 1, Len(c)) = c
                           /\ x[Len(c) + 1] = " "))
                  => Unquoted(text) = <<n>>

(* 'git status --short' with gs -> 'git status' gives 'gs --short' *)
C17_Witness ==
    /\ call.op = "suggest"
    /\ call.command = GitStatusShort
    /\ resolved = [name |-> "gs", command |-> GitStatus]
    /\ Unquoted(result.suggested) = <<"gs", " ", "--short">>

(* the typed 'g status' expands through g -> 'git' to the command of gs *)
C17_WitnessExpanded ==
    /\ call.op = "suggest"
    /\ call.command = <<"g", " ", "status">>
    /\ aliases = StoreChain
    /\ resolved = [name |-> "gs", command |-> GitStatus]
    /\ Unquoted(result.suggested) = <<"gs">>

(* an alias whose command is no prefix of the expansion: the name alone *)
C17_WitnessOther ==
    /\ call.op = "suggest"
    /\ call.command = GitStatusShort
    /\ resolved = [name |-> "ls", command |-> <<"ls", " ", "--color">>]
    /\ Unquoted(result.suggested) = <<"ls">>

(* the lines of a file that define an alias, in textual order *)
FileDefinitions(fs, f, shell) ==
    IF f \in DOMAIN fs
    THEN [i \in 1..Len(SelectSeq(fs[f], LAMBDA l : ~Excluded(l) /\ HoldsDefinition(l))) |->
             [name    |-> re_search(SelectSeq(fs[f], LAMBDA l : ~Excluded(l)
                                                       /\ HoldsDefinition(l))[i]).name,
              command |-> re_search(SelectSeq(fs[f], LAMBDA l : ~Excluded(l)
                                                       /\ HoldsDefinition(l))[i]).command,
              shell   |-> shell,
              file    |-> f]]
    ELSE << >>

(* the definitions of one shell, in file-enumeration order *)
ShellDefinitions(fs, shell) ==
    LET paths == get_config_files(shell)
    IN FileDefinitions(fs, paths[1], shell) \o FileDefinitions(fs, paths[2], shell)
       \o FileDefinitions(fs, paths[3], shell) \o FileDefinitions(fs, paths[4], shell)

(* every definition in processing order: bash, then zsh *)
ProcessingOrder(fs) == ShellDefinitions(fs, "bash") \o ShellDefinitions(fs, "zsh")

(* the last definition of name n *)
LastDefinition(defs, n) ==
    defs[CHOOSE i \in 1..Len(defs) :
             defs[i].name = n /\ \A j \in (i + 1)..Len(defs) : defs[j].name # n]

(* C18: for each alias name, the collected mapping holds the command of the
   last definition in processing order: textual order within one file,
   file-enumeration order across the files of one shell, and bash before zsh
   across shells; a name is collected exactly when it has a definition *)
C18_LastDefinitionWins ==
    call.op = "collect" =>
        LET defs == ProcessingOrder(files) IN
        /\ \A i \in 1..Len(defs) :
               /\ HasAlias(aliases, defs[i].name)
               /\ AliasData(aliases, defs[i].name).command
                      = LastDefinition(defs, defs[i].name).command
        /\ \A k \in 1..Len(aliases) : \E i \in 1..Len(defs) : defs[i].name = aliases[k].name

(* x is 'a' in ~/.zshrc and 'b' in ~/.bash_aliases: zsh comes last *)
C18_Witness ==
    /\ call.op = "collect"
    /\ DOMAIN files = {".zshrc", ".bash_aliases"}
    /\ files[".zshrc"] = <<LineXa>> /\ files[".bash_aliases"] = <<LineXb>>
    /\ Len(aliases) = 1 /\ aliases[1].name = "x" /\ aliases[1].command = W("a")
    /\ aliases[1].shell = "zsh"

(* x is 'a' and then 'b' in one file *)
C18_WitnessFile ==
    /\ call.op = "collect"
    /\ DOMAIN files = {".bash_aliases"}
    /\ files[".bash_aliases"] = <<LineXa, LineXb>>
    /\ Len(aliases) = 1 /\ aliases[1].name = "x" /\ aliases[1].command = W("b")

(* x is 'a' in ~/.profile and 'b' in ~/.bash_aliases, which is read first *)
C18_WitnessFiles ==
    /\ call.op = "collect"
    /\ DOMAIN files = {".profile", ".bash_aliases"}
    /\ files[".profile"] = <<LineXa>> /\ files[".bash_aliases"] = <<LineXb>>
    /\ Len(aliases) = 1 /\ aliases[1].name = "x" /\ aliases[1].command = W("a")

(* C20: after any sequence of parse, relearn and add operations, every entry
   of the Alias Store has a non-empty name and a non-empty command *)
C20_EntriesAreNonEmpty ==
    \A i \in 1..Len(aliases) :
        /\ aliases[i].name # ""
        /\ Len(aliases[i].command) > 0

(* a relearn after alias y='' was written to a monitored file and after    *)
(* sloth add had stored x: the store holds x alone                         *)
C20_Witness ==
    /\ call.op = "learn"
    /\ ".bash_aliases" \in DOMAIN files
    /\ files[".bash_aliases"] = <<LineEmpty>>
    /\ RcFile \in DOMAIN files
    /\ Len(aliases) = 1 /\ aliases[1].name = "x" /\ aliases[1].shell = "bash"

(* sloth add without a command is refused while the store holds an alias *)
C20_WitnessAdd ==
    /\ call.op = "add" /\ call.alias = "x" /\ call.command = << >>
    /\ exit_code = 1
    /\ aliases # << >>

(* at most one session has typed anything *)
OneSessionOnly ==
    \E p \in Sessions : \A q \in Sessions \ {p} : procs[q] = AtPrompt(0)

CompletedFor(n) == IF n \in DOMAIN completed THEN completed[n] ELSE 0

(* C21: the count that stats.yaml holds for an alias never exceeds the number
   of tracked record calls that returned for it, and it is exactly that number
   as long as one session alone runs record; with two sessions the
   read-increment-write of record can interleave so that an increment is lost
   (the witness: a persisted count below the number of completed calls) *)
C21_CountAtMostCompleted ==
    /\ \A n \in DOMAIN stats : stats[n].count <= CompletedFor(n)
    /\ OneSessionOnly =>
           \A n \in (DOMAIN stats) \cup (DOMAIN completed) :
               CountOf(stats, n) = CompletedFor(n)

(* both sessions read the empty store, both wrote gs: count 1, two calls *)
C21_Witness ==
    /\ \A p \in Sessions : procs[p].pc = "prompt" /\ procs[p].calls = 1
    /\ CompletedFor("gs") = 2
    /\ "gs" \in DOMAIN stats /\ stats["gs"].count = 1

(* C26: no persisted count of an alias ever drops below a value persisted
   earlier, also when two hook processes interleave their read and write-back
   of the Stats Store; a record for one alias never reverts the count of
   another *)
C26_CountsNeverDropUnderRace ==
    [][\A n \in DOMAIN stats : n \in DOMAIN stats' /\ stats'[n].count >= stats[n].count]_vars

(* C22: matching is done against the fully expanded command of each alias:
   with g -> 'git' and gs -> 'g status' in the store, a record of the long
   form 'git status' is counted for gs, not for the shorter g *)
C22_RecordSelectsExpandedAlias ==
    (/\ aliases = StoreVia
     /\ call.op = "record" /\ call.called
     /\ call.command = GitStatus)
    => call.alias = "gs"
(* the names that some existing monitored file of some shell defines *)
DefinedInMonitored(fs) ==
    { e.name : e \in UNION { Elements(parse_files(fs, monitored_files(shell), shell, << >>)) :
                               shell \in Shells } }

StoreNames(als) == { als[i].name : i \in 1..Len(als) }

(* a step that is a relearn pass: sloth relearn of a shell, or a check     *)
(* that relearned                                                          *)
RelearnPass == call'.op = "learn" \/ (call'.op = "check" /\ watch'.relearned # << >>)

(* C23: a relearn pass removes an alias from the Alias Store only when no  *)
(* existing monitored file, of whatever shell, defines it any more,        *)
(* whichever shells the pass covers                                        *)
C23_RelearnKeepsDefinedAliases ==
    [][RelearnPass => \A n \in StoreNames(aliases) \cap DefinedInMonitored(files) :
                         n \in StoreNames(aliases')]_vars

(* a monitored file that is new, or whose modification time is not the    *)
(* one the previous check recorded                                         *)
NewOrModified(f) ==
    /\ f \in DOMAIN files
    /\ f \notin DOMAIN watch.recorded \/ watch.recorded[f] # watch.mtime[f]

AffectedShells ==
    { shell \in Shells : \E f \in Elements(monitored_files(shell)) : NewOrModified(f) }

(* C25: a check relearns only shells whose monitored list holds a file     *)
(* that is new or modified since the previous check; when no file is, it   *)
(* relearns nothing, leaves the Alias Store alone and returns False; the   *)
(* second of two checks with no modification in between relearns nothing   *)
C25_CheckRelearnsOnlyAffectedShells ==
    [][call'.op = "check" =>
          /\ Elements(watch'.relearned) \subseteq AffectedShells
          /\ AffectedShells = {} =>
                 /\ watch'.relearned = << >>
                 /\ ~watch'.returned
                 /\ aliases' = aliases
          /\ call.op = "check" => watch'.relearned = << >>]_vars

(* a check relearned zsh alone while a file of bash exists *)
C25_Witness ==
    /\ call.op = "check"
    /\ watch.relearned = <<"zsh">>
    /\ watch.returned
    /\ ".bash_aliases" \in DOMAIN files

(* a check found existing monitored files unchanged *)
C25_WitnessUnchanged ==
    /\ call.op = "check"
    /\ watch.relearned = << >>
    /\ {".zshrc", ".slothrc"} \subseteq DOMAIN files
    /\ aliases # << >>

(* the monitored files a check would report as changed *)
ReportedChanged == { f \in all_monitored_files : NewOrModified(f) }

(* C28: a modified monitored file keeps being reported as changed until a  *)
(* relearn has completed: a check whose relearn fails leaves every file it *)
(* reported as changed reported as changed, for the next check to retry    *)
C28_FailedRelearnIsRetried ==
    [][(call'.op = "check" /\ error' # NoError) => ReportedChanged \subseteq ReportedChanged']_vars

(* C29: the check that follows the deletion of a monitored file which an   *)
(* earlier check had seen relearns the shells of that file, and leaves in  *)
(* the Alias Store no alias of that file that no existing monitored file   *)
(* defines                                                                 *)
C29_DeletionIsAChange ==
    [][(/\ call.op = "delete" /\ call.alias \in DOMAIN watch.recorded
        /\ call'.op = "check" /\ error' = NoError) =>
          /\ \A shell \in Shells :
                 InSeq(call.alias, monitored_files(shell)) => InSeq(shell, watch'.relearned)
          /\ \A i \in 1..Len(aliases') :
                 source_file_of(aliases'[i]) = call.alias =>
                     aliases'[i].name \in DefinedInMonitored(files')]_vars

(* C27: in sequential use a tracked record call counted for alias A keeps *)
(* every other entry of the Stats Store as it was, adds no entry but A's,  *)
(* keeps A's first_seen once the entry exists, and neither a record nor a  *)
(* resolve call changes the Alias Store                                    *)
C27_RecordChangesOnlyItsEntry ==
    [][/\ (call'.op = "record" /\ call'.alias # "") =>
             /\ aliases' = aliases
             /\ DOMAIN stats' = DOMAIN stats \cup {call'.alias}
             /\ \A n \in DOMAIN stats :
                    IF n = call'.alias
                    THEN stats'[n].first_seen = stats[n].first_seen
                    ELSE stats'[n] = stats[n]
       /\ call'.op = "resolve" => (aliases' = aliases /\ stats' = stats)]_vars

(* an alias was recorded a second time after another alias was recorded *)
C27_Witness ==
    /\ call.op = "record"
    /\ call.alias \in DOMAIN stats
    /\ stats[call.alias].first_seen < stats[call.alias].last_seen
    /\ \E n \in DOMAIN stats :
           n # call.alias /\ stats[n].last_seen < stats[call.alias].last_seen

(* a command was resolved to an alias after calls were recorded *)
C27_WitnessResolve ==
    /\ call.op = "resolve"
    /\ resolved # NoAlias
    /\ stats # << >>

(* the integration blocks of a file: its marker lines, its end lines *)
MarkerCount(lines) == Len(SelectSeq(lines, LAMBDA line : contains(line, Marker)))

EndCount(lines) == Len(SelectSeq(lines, LAMBDA line : contains(line, EndMarker)))

InstalledIn(fs, shell) ==
    /\ find_existing_config(fs, shell) \in DOMAIN fs
    /\ MarkerCount(fs[find_existing_config(fs, shell)]) > 0

C24_WitnessRefused ==
    /\ call.op = "install"
    /\ ~call.called
    /\ error = "ValueError"
    /\ InstalledIn(files, call.alias)

(* C30: after any add_alias and remove_alias calls, get_aliases returns    *)
(* the names added and not removed since, each with the command of its     *)
(* most recent add_alias, whatever the command strings hold                *)
C30_SlothrcIsAMap ==
    call.op \in {"rc_add", "rc_remove"} =>
        LET got == rc_get_aliases(files)
        IN /\ StoreNames(got) = DOMAIN expected
           /\ \A i \in 1..Len(got) : got[i].command = expected[got[i].name]

====
